---- MODULE Spec2Model ----
(***************************************************************************)
(* Model of the Celestron Origin protocol bridge: OriginBackend (the       *)
(* native WebSocket session), AlpacaServer (the REST adapter) and the Qt   *)
(* event loop that runs both on one thread.  A blocking call               *)
(* (connectToTelescope, singleShot) runs a nested QEventLoop: it is a      *)
(* frame on `stack`, and while it waits every other handler may run.       *)
(* Only the top frame can return, and only after its loop was quit.        *)
(* The AutoDownloader of the monitor window is modelled beside them.       *)
(*                                                                         *)
(* Units: right ascension in hours, declination in degrees, Duration in    *)
(* seconds, Rate in hundredths times ten to the power RateExponent;       *)
(* booleans of a request body are 0/1.                                    *)
(***************************************************************************)
EXTENDS Integers, Sequences, FiniteSets, TLC

\* ------------------------------------------------------------- bounds
\* nested blocking calls (depth of the QEventLoop stack)
MaxDepth == 2
\* native commands created by createCommand in one run
MaxCmds == 5
\* REST responses produced in one run
MaxResp == 3
\* image downloads in flight at once
MaxDownloads == 1
\* discovery datagrams sent in one run
MaxDatagrams == 6
\* inbound messages dropped in one run
MaxDropped == 2
\* calls of startDownload in one run
MaxRuns == 3
\* HTTP downloads of the AutoDownloader in flight at once
MaxReplies == 2
\* allDownloadsComplete signals counted since a startDownload
MaxCompletions == 3
\* native commands in one run of the exposure scenario with polling
MaxPollCmds == 9

\* ------------------------------------------------- program constants
SeqStart == 2000
ErrNotConnected == 1031
ErrInvalidOperation == 1002
ErrInvalidValue == 1025
ErrGeneric == 1
ErrNotImplemented == 1001
ErrNotSupported == 1036

VARIABLES
  backend,   \* the OriginBackend object (its fields, its QWebSocket and QTimer)
  server,    \* the AlpacaServer object
  stack,     \* frames of the blocking calls in progress, innermost last
  resp,      \* the response written last (observer of the HTTP connection)
  conn,      \* outcome of the connect call that returned last (observer)
  lost,      \* the transport of a connected session was lost and no PUT
             \* connected has been answered with Value true since (observer)
  downloader \* the AutoDownloader object of the monitor window

vars == <<backend, server, stack, resp, conn, lost, downloader>>

\* ------------------------------------------------------------ request inputs
\* RateExponent is no parameter of its own: it is the power of ten in the
\* text of Rate (Rate=3e7), 0 for a text without one.
ParamNames == {"RightAscension", "Declination", "Duration", "Gain",
               "Tracking", "Connected", "Axis", "Rate", "RateExponent"}

NoVals == [n \in ParamNames |-> 0]

\* A request body: empty, text that yields no key=value pair, or a JSON
\* object / form with the parameters `has` and their values `val`.
EmptyBody == [kind |-> "empty", has |-> {}, val |-> NoVals]
JunkBody  == [kind |-> "junk", has |-> {}, val |-> NoVals]
JsonBody(has, val) == [kind |-> "json", has |-> has, val |-> val]
FormBody(has, val) == [kind |-> "form", has |-> has, val |-> val]

With1(n, v) == [NoVals EXCEPT ![n] = v]
With2(n1, v1, n2, v2) == [NoVals EXCEPT ![n1] = v1, ![n2] = v2]

\* Both coordinates given: in range at the edges, and each out of range.
CoordPairs == {<<0, 90>>, <<23, -90>>, <<24, 0>>, <<-1, 0>>, <<0, 91>>, <<0, -91>>}

CoordBodies ==
  {EmptyBody, JunkBody, JsonBody({}, NoVals),
   JsonBody({"RightAscension"}, With1("RightAscension", 12)),
   JsonBody({"Declination"}, With1("Declination", 95))}
  \cup {JsonBody({"RightAscension", "Declination"},
                 With2("RightAscension", c[1], "Declination", c[2])) : c \in CoordPairs}

DurationBodies ==
  {EmptyBody, JunkBody, FormBody({"Gain"}, With1("Gain", 80))}
  \cup {JsonBody({"Duration"}, With1("Duration", d)) : d \in {-1, 0, 2}}

TrackingBodies ==
  {EmptyBody, JsonBody({"Connected"}, With1("Connected", 1)),
   FormBody({"Tracking"}, With1("Tracking", 1)),
   JsonBody({"Tracking"}, With1("Tracking", 0))}

ConnectedBodies ==
  {EmptyBody, JsonBody({"Tracking"}, With1("Tracking", 1))}
  \cup {JsonBody({"Connected"}, With1("Connected", c)) : c \in {0, 1}}

AxisBodies ==
  {EmptyBody, JsonBody({"Axis"}, With1("Axis", 0)),
   JsonBody({"Axis", "Rate"}, With2("Axis", 2, "Rate", 50))}
  \cup {JsonBody({"Axis", "Rate"}, With2("Axis", a, "Rate", r)) :
          a \in {0, 1}, r \in {-50, 150}}

With3(n1, v1, n2, v2, n3, v3) == [NoVals EXCEPT ![n1] = v1, ![n2] = v2, ![n3] = v3]

\* moveaxis bodies over the rates 0, -0.5, 1.5, 0.375, -0.199 and 3e7.
RateBodies ==
  {EmptyBody, JsonBody({"Axis"}, With1("Axis", 0))}
  \cup {JsonBody({"Axis", "Rate"}, With3("Axis", a, "Rate", r[1], "RateExponent", r[2])) :
          a \in {0, 1, 2},
          r \in {<<0, 0>>, <<-50, 0>>, <<150, 0>>, <<375, -1>>, <<-199, -1>>, <<30, 8>>}}

\* The ClientTransactionID item of a request's query string: absent, or
\* present with its text (one string per character).
NoItem == [has |-> FALSE, text |-> <<>>]
Item(text) == [has |-> TRUE, text |-> text]

\* The item the requests of a session carry.
CtIds == {Item(<<"7">>)}

\* Items of requests: none, a small id, the largest 32-bit unsigned id.
QueryItems == {NoItem, Item(<<"7">>), Item(<<"4", "2", "9", "4", "9", "6", "7", "2", "9", "5">>)}

\* Inbound mount status payloads (TelescopeData.mount after the packet);
\* enc0/enc1 are radians counted in units of pi/180.
MountMsgs ==
  { [isTracking |-> FALSE, isGotoOver |-> TRUE,  isAligned |-> TRUE, enc0 |-> 90, enc1 |-> 45],
    [isTracking |-> TRUE,  isGotoOver |-> FALSE, isAligned |-> TRUE, enc0 |-> 90, enc1 |-> 45],
    [isTracking |-> TRUE,  isGotoOver |-> TRUE,  isAligned |-> TRUE, enc0 |-> 90, enc1 |-> 45] }

\* ------------------------------------------------------------ OriginBackend
InitStatus ==
  [altPosition |-> 0, azPosition |-> 0, raPosition |-> 0, decPosition |-> 0,
   isConnected |-> FALSE, isSlewing |-> FALSE, isTracking |-> FALSE,
   isParked |-> FALSE, isAligned |-> FALSE, currentOperation |-> "Idle"]

InitData ==
  [isTracking |-> FALSE, isGotoOver |-> TRUE, isAligned |-> FALSE, enc0 |-> 0, enc1 |-> 0]

InitBackend ==
  [ws |-> "Unconnected",
   m_connectedHost |-> "",
   m_isConnected |-> FALSE,
   m_isExposing |-> FALSE,
   m_imageReady |-> FALSE,
   m_lastImage |-> 0,
   m_nextSequenceId |-> SeqStart,
   m_status |-> InitStatus,
   m_pendingCommands |-> {},
   m_currentImagingSession |-> 0,
   timerActive |-> FALSE,
   data |-> InitData,
   downloads |-> 0,
   uuids |-> 0,
   sent |-> <<>>,
   answered |-> {},
   dropped |-> 0]

radiansToHours(r) == (r * 12) \div 180
radiansToDegrees(r) == (r * 180) \div 180
hoursToRadians(h) == (h * 180) \div 12
degreesToRadians(d) == (d * 180) \div 180

\* createCommand takes the next SequenceID whether or not the command is
\* transmitted; sendCommand transmits and records it only on an open socket.
NoParams == [Axis |-> "", Direction |-> "", Speed |-> 0]

sendCommandP(b, command, destination, uuid, params) ==
  LET id == b.m_nextSequenceId
      b1 == [b EXCEPT !.m_nextSequenceId = id + 1]
  IN IF b.ws = "Connected"
     THEN [b1 EXCEPT
             !.sent = Append(@, [cmd |-> command, dest |-> destination, id |-> id,
                                 uuid |-> uuid, params |-> params]),
             !.m_pendingCommands =
                {p \in @ : p.id # id} \cup {[id |-> id, cmd |-> command]}]
     ELSE b1

sendCommandU(b, command, destination, uuid) ==
  sendCommandP(b, command, destination, uuid, NoParams)

sendCommand(b, command, destination) == sendCommandU(b, command, destination, 0)

Done(b, ok) == [b |-> b, ok |-> ok]

\* Mutant: the command is sent but the status is left for the next poll.
gotoPosition_SendsOnly(b, ra, dec) ==
  IF ~b.m_isConnected THEN Done(b, FALSE)
  ELSE Done(sendCommand(b, "GotoRaDec", "Mount"), TRUE)

gotoPosition(b, ra, dec) ==
  IF ~b.m_isConnected THEN Done(b, FALSE)
  ELSE Done([sendCommand(b, "GotoRaDec", "Mount") EXCEPT
               !.m_status.isSlewing = TRUE,
               !.m_status.currentOperation = "Slewing"], TRUE)

syncPosition(b, ra, dec) ==
  IF ~b.m_isConnected THEN Done(b, FALSE)
  ELSE Done(sendCommand(b, "SyncToRaDec", "Mount"), TRUE)

abortMotion(b) ==
  IF ~b.m_isConnected THEN Done(b, FALSE)
  ELSE Done([sendCommand(b, "AbortAxisMovement", "Mount") EXCEPT
               !.m_status.isSlewing = FALSE,
               !.m_status.currentOperation = "Idle"], TRUE)

parkMount(b) ==
  IF ~b.m_isConnected THEN Done(b, FALSE)
  ELSE Done([sendCommand(b, "Park", "Mount") EXCEPT
               !.m_status.isParked = TRUE,
               !.m_status.currentOperation = "Parking"], TRUE)

unparkMount(b) ==
  IF ~b.m_isConnected THEN Done(b, FALSE)
  ELSE Done([sendCommand(b, "Unpark", "Mount") EXCEPT
               !.m_status.isParked = FALSE,
               !.m_status.currentOperation = "Unparking"], TRUE)

initializeTelescope(b) ==
  IF ~b.m_isConnected THEN Done(b, FALSE)
  ELSE Done([sendCommand(b, "RunInitialize", "TaskController") EXCEPT
               !.m_status.currentOperation = "Initializing"], TRUE)

moveDirection(b, direction, speed) ==
  IF ~b.m_isConnected THEN Done(b, FALSE)
  ELSE IF direction \notin {0, 1, 2, 3} THEN Done(b, FALSE)
  ELSE Done(sendCommandP(b, "MoveAxis", "Mount", 0,
                         [Axis |-> IF direction \in {0, 1} THEN "Dec" ELSE "Ra",
                          Direction |-> IF direction \in {0, 2} THEN "Positive"
                                        ELSE "Negative",
                          Speed |-> speed]), TRUE)

setTracking(b, enabled) ==
  IF ~b.m_isConnected THEN Done(b, FALSE)
  ELSE Done([sendCommand(b, IF enabled THEN "StartTracking" ELSE "StopTracking", "Mount")
               EXCEPT !.m_status.isTracking = enabled], TRUE)

\* Mutant: the exposing flag is cleared before the connection is tested.
abortExposure_ClearsFirst(b) ==
  LET b1 == [b EXCEPT !.m_isExposing = FALSE]
  IN IF ~b.m_isConnected THEN Done(b1, FALSE)
     ELSE Done(sendCommand(b1, "CancelImaging", "TaskController"), TRUE)

abortExposure(b) ==
  IF ~b.m_isConnected THEN Done(b, FALSE)
  ELSE Done([sendCommand(b, "CancelImaging", "TaskController") EXCEPT !.m_isExposing = FALSE], TRUE)

\* Mutant: the poll timer is left running.
disconnectFromTelescope_KeepsPolling(b) ==
  [b EXCEPT !.ws = IF @ = "Connected" THEN "Closing" ELSE @,
            !.m_isConnected = FALSE,
            !.m_status.isConnected = FALSE]

disconnectFromTelescope(b) ==
  [b EXCEPT !.ws = IF @ = "Connected" THEN "Closing" ELSE @,
            !.timerActive = FALSE,
            !.m_isConnected = FALSE,
            !.m_status.isConnected = FALSE]

updateStatus(b) ==
  IF ~b.m_isConnected THEN b
  ELSE sendCommand(sendCommand(sendCommand(b, "GetStatus", "Mount"),
                               "GetStatus", "Environment"),
                   "GetCaptureParameters", "Camera")

\* Mutant: the tracking flag is tested before the slewing flag.
updateStatusFromProcessor_TrackingFirst(b) ==
  LET slewing == ~b.data.isGotoOver
      tracking == b.data.isTracking
  IN [b EXCEPT
        !.m_status.isTracking = tracking,
        !.m_status.isSlewing = slewing,
        !.m_status.isAligned = b.data.isAligned,
        !.m_status.raPosition = radiansToHours(b.data.enc0),
        !.m_status.decPosition = radiansToDegrees(b.data.enc1),
        !.m_status.altPosition = 45,
        !.m_status.azPosition = 180,
        !.m_status.currentOperation =
           IF tracking THEN "Tracking" ELSE IF slewing THEN "Slewing" ELSE "Idle"]

updateStatusFromProcessor(b) ==
  LET slewing == ~b.data.isGotoOver
      tracking == b.data.isTracking
  IN [b EXCEPT
        !.m_status.isTracking = tracking,
        !.m_status.isSlewing = slewing,
        !.m_status.isAligned = b.data.isAligned,
        !.m_status.raPosition = radiansToHours(b.data.enc0),
        !.m_status.decPosition = radiansToDegrees(b.data.enc1),
        !.m_status.altPosition = 45,
        !.m_status.azPosition = 180,
        !.m_status.currentOperation =
           IF slewing THEN "Slewing" ELSE IF tracking THEN "Tracking" ELSE "Idle"]

\* TelescopeDataProcessor::processJsonPacket for a mount status packet: the
\* packet's fields become the processor's telescope data.
processJsonPacket(b, m) == [b EXCEPT !.data = m]

requestImage(b) ==
  IF b.m_connectedHost = "" THEN b ELSE [b EXCEPT !.downloads = @ + 1]

\* An inbound text message: doc is what QJsonDocument::fromJson makes of it
\* ("null" for text that is no JSON, "array", "object"); the other fields are
\* the object's members, "" when absent.
Message(doc, source, command, type, fileLocation) ==
  [doc |-> doc, Source |-> source, Command |-> command, Type |-> type,
   FileLocation |-> fileLocation]

\* Messages that are no JSON, no object, or of no known shape: an object
\* without members, a notification with an unknown command, and a Response
\* that answers no status query.
UnmatchedMsgs ==
  {Message("null", "", "", "", ""),
   Message("array", "", "", "", ""),
   Message("object", "", "", "", ""),
   Message("object", "ImageServer", "Bogus", "Notification", "Images/Temp/0.tiff"),
   Message("object", "ImageServer", "NewImageReady", "Response", "Images/Temp/0.tiff")}

\* The result of TelescopeDataProcessor::processJsonPacket: whether the packet
\* was a status response or the image notification, and was taken in.
processed(msg) ==
  /\ msg.doc = "object"
  /\ \/ msg.Type = "Response" /\ msg.Command \in {"GetStatus", "GetCaptureParameters"}
     \/ msg.Type = "Notification" /\ msg.Command = "NewImageReady"
        /\ msg.Source = "ImageServer"

\* Mutant: every NewImageReady message of ImageServer starts the download,
\* whatever its Type.
onTextMessageReceived_AnyType(b, msg) ==
  LET b1 == IF processed(msg) THEN updateStatusFromProcessor(b) ELSE b
  IN IF /\ msg.doc = "object"
        /\ msg.Source = "ImageServer"
        /\ msg.Command = "NewImageReady"
        /\ msg.FileLocation # ""
     THEN requestImage(b1)
     ELSE b1

\* onTextMessageReceived after the processor has seen the packet.
onTextMessageReceived(b, msg) ==
  LET b1 == IF processed(msg) THEN updateStatusFromProcessor(b) ELSE b
  IN IF /\ msg.doc = "object"
        /\ msg.Source = "ImageServer"
        /\ msg.Command = "NewImageReady"
        /\ msg.Type = "Notification"
        /\ msg.FileLocation # ""
     THEN requestImage(b1)
     ELSE b1

\* ------------------------------------------------------------ AlpacaServer
\* Port the application starts the bridge on, and others it may be given.
DefaultPort == 11111
Ports == {DefaultPort, 8080, 8081, 32323}

\* AlpacaServer after its constructor.  m_telescopeBackend is TRUE once a
\* backend is set, listening is the state of m_tcpserver, datagrams are the
\* AlpacaPort values broadcast so far; startedOn records the port argument of
\* the last start call that brought the server into the running state.
InitServer ==
  [m_transactionCounter |-> 0,
   m_running |-> FALSE,
   m_telescopeBackend |-> FALSE,
   m_port |-> DefaultPort,
   m_discoveryTimer |-> FALSE,
   listening |-> FALSE,
   datagrams |-> <<>>,
   startedOn |-> 0]

setTelescopeBackend(s) == [s EXCEPT !.m_telescopeBackend = TRUE]

sendDiscoveryBroadcast(s) == [s EXCEPT !.datagrams = Append(@, s.m_port)]

startDiscoveryBroadcast(s) == sendDiscoveryBroadcast([s EXCEPT !.m_discoveryTimer = TRUE])

stopDiscoveryBroadcast(s) == [s EXCEPT !.m_discoveryTimer = FALSE]

\* free: the port can be bound by m_tcpserver.listen; binds: the result of
\* m_server.bind.  QTcpServer::listen fails on a server that already listens.
start(s, port, free, binds) ==
  IF s.m_running THEN [s |-> s, ok |-> TRUE]
  ELSE IF ~s.m_telescopeBackend THEN [s |-> s, ok |-> FALSE]
  ELSE LET s1 == [s EXCEPT !.m_port = port]
       IN IF s1.listening \/ ~free THEN [s |-> s1, ok |-> FALSE]
          ELSE LET s2 == [s1 EXCEPT !.listening = TRUE]
               IN IF ~binds THEN [s |-> s2, ok |-> FALSE]
                  ELSE [s |-> startDiscoveryBroadcast([s2 EXCEPT !.m_running = TRUE]),
                        ok |-> TRUE]

\* Mutant: stopping leaves the discovery timer running.
stop_KeepsBroadcasting(s) ==
  IF ~s.m_running THEN s
  ELSE [s EXCEPT !.m_running = FALSE]

stop(s) ==
  IF ~s.m_running THEN s
  ELSE [stopDiscoveryBroadcast(s) EXCEPT !.m_running = FALSE]

\* The server the application serves requests with: backend set, started on
\* the default port.
ServingServer ==
  [start(setTelescopeBackend(InitServer), DefaultPort, TRUE, TRUE).s
     EXCEPT !.startedOn = DefaultPort]

Null == [t |-> "null", v |-> 0]
Bool(x) == [t |-> "bool", v |-> IF x THEN 1 ELSE 0]
Num(n) == [t |-> "num", v |-> n]
\* The double m * 10^e.
Decimal(m, e) == [t |-> "num", m |-> m, e |-> e]
Str(x) == [t |-> "string", v |-> x]
Array(x) == [t |-> "array", v |-> x]
Object(x) == [t |-> "object", v |-> x]

\* QHostInfo::localHostName() of the machine the bridge runs on.
HostName == "observatory"

\* Members of AlpacaServer written by the constructor only.
m_serverName == "Celestron Origin Alpaca Server on " \o HostName
m_manufacturer == "Celestron Origin Project"
m_manufacturerVersion == "1.0.0"
m_location == ""

\* Stored images, by number (0 is the null QImage).  bits[y + 1][x + 1] is the
\* byte of a Grayscale8 scan line, or the <<red, green, blue>> of a pixel.
ImageIds == 1 .. 6

Image(id) ==
  CASE id = 1 -> [format |-> "Grayscale8", width |-> 2, height |-> 2,
                  bits |-> << <<0, 255>>, <<7, 128>> >>]
    [] id = 2 -> [format |-> "Grayscale8", width |-> 3, height |-> 1,
                  bits |-> << <<1, 2, 3>> >>]
    [] id = 3 -> [format |-> "Grayscale8", width |-> 1, height |-> 3,
                  bits |-> << <<200>>, <<100>>, <<50>> >>]
    [] id = 4 -> [format |-> "RGB32", width |-> 2, height |-> 2,
                  bits |-> << << <<255, 255, 255>>, <<255, 0, 0>> >>,
                              << <<0, 255, 0>>, <<0, 0, 255>> >> >>]
    [] id = 5 -> [format |-> "RGB32", width |-> 1, height |-> 2,
                  bits |-> << << <<10, 20, 30>> >>, << <<1, 1, 1>> >> >>]
    [] id = 6 -> [format |-> "Grayscale8", width |-> 2, height |-> 3,
                  bits |-> << <<9, 8>>, <<7, 6>>, <<5, 4>> >>]

\* qGray of Qt: (r * 11 + g * 16 + b * 5) / 32.
qGray(pixel) == (pixel[1] * 11 + pixel[2] * 16 + pixel[3] * 5) \div 32

quint16(n) == n % 65536

\* The value both encodings compute for the pixel in column x of row y.
grayValue(image, x, y) ==
  IF image.format = "Grayscale8" THEN image.bits[y + 1][x + 1] * 257
  ELSE qGray(image.bits[y + 1][x + 1]) * 257

\* The JSON encoding: the rows from y on, each appended column by column.
RECURSIVE pixelArray(_, _)
pixelArray(image, y) ==
  IF y >= image.height THEN <<>>
  ELSE [x1 \in 1 .. image.width |-> grayValue(image, x1 - 1, y)] \o pixelArray(image, y + 1)

\* Mutant: the binary encoding indexes its buffer column by column.
pixelData_ColumnMajor(image) ==
  [i \in 1 .. image.width * image.height |->
     LET at == CHOOSE at \in (0 .. image.width - 1) \X (0 .. image.height - 1) :
                 at[1] * image.height + at[2] = i - 1
     IN quint16(grayValue(image, at[1], at[2]))]

\* The binary encoding: the 16-bit word at index y * width + x of the buffer.
pixelData(image) ==
  [i \in 1 .. image.width * image.height |->
     LET at == CHOOSE at \in (0 .. image.width - 1) \X (0 .. image.height - 1) :
                 at[2] * image.width + at[1] = i - 1
     IN quint16(grayValue(image, at[1], at[2]))]

Pixels(image) == [t |-> "array", v |-> pixelArray(Image(image), 0)]

\* The QImage handed to the encoder.
Stored(image) == [t |-> "image", v |-> image]

\* ClientTransaction as parsed from the query string (0 when absent).
digit(c) ==
  CASE c = "0" -> 0 [] c = "1" -> 1 [] c = "2" -> 2 [] c = "3" -> 3 [] c = "4" -> 4
    [] c = "5" -> 5 [] c = "6" -> 6 [] c = "7" -> 7 [] c = "8" -> 8 [] c = "9" -> 9

\* The number a text of decimal digits denotes.
RECURSIVE decimal(_)
decimal(text) ==
  IF text = <<>> THEN 0
  ELSE decimal(SubSeq(text, 1, Len(text) - 1)) * 10 + digit(text[Len(text)])

\* The digits of the largest int, 2147483647.
IntMaxText == <<"2", "1", "4", "7", "4", "8", "3", "6", "4", "7">>

\* Texts of equal length: a is not after b in the order of the numbers.
RECURSIVE notAfter(_, _)
notAfter(a, b) ==
  IF a = <<>> THEN TRUE
  ELSE IF digit(a[1]) # digit(b[1]) THEN digit(a[1]) < digit(b[1])
  ELSE notAfter(Tail(a), Tail(b))

\* The number a text of digits (without leading zeros) denotes fits an int.
fitsInt(text) ==
  \/ Len(text) < Len(IntMaxText)
  \/ Len(text) = Len(IntMaxText) /\ notAfter(text, IntMaxText)

\* QString::toInt on a text of decimal digits: 0 when the text is empty or the
\* number does not fit an int.
toInt(text) ==
  IF text = <<>> \/ ~fitsInt(text) THEN 0 ELSE decimal(text)

parseClientTransaction(ctid) ==
  [clientID |-> 0,
   clientTransactionID |-> IF ctid.has THEN toInt(ctid.text) ELSE 0]

\* Mutant: an error response that does not advance the counter.
createErrorResponse_ReusesId(s, errorNumber, errorMessage) ==
  [s |-> s,
   env |-> [ErrorNumber |-> errorNumber,
            ErrorMessage |-> errorMessage,
            ClientTransactionID |-> 0,
            ServerTransactionID |-> s.m_transactionCounter,
            Value |-> Null,
            binary |-> FALSE]]

createErrorResponse(s, errorNumber, errorMessage) ==
  [s |-> [s EXCEPT !.m_transactionCounter = @ + 1],
   env |-> [ErrorNumber |-> errorNumber,
            ErrorMessage |-> errorMessage,
            ClientTransactionID |-> 0,
            ServerTransactionID |-> s.m_transactionCounter,
            Value |-> Null,
            binary |-> FALSE]]

createSuccessResponse(s, value, transaction) ==
  [s |-> [s EXCEPT !.m_transactionCounter = @ + 1],
   env |-> [ErrorNumber |-> 0,
            ErrorMessage |-> "",
            ClientTransactionID |-> transaction.clientTransactionID,
            ServerTransactionID |-> s.m_transactionCounter,
            Value |-> value,
            binary |-> FALSE]]

\* The application/imagebytes reply of handleCameraImageArray: the 44-byte
\* header carries error number 0 and both transaction ids.
createImageBytesResponse(s, value, transaction) ==
  [s |-> [s EXCEPT !.m_transactionCounter = @ + 1],
   env |-> [ErrorNumber |-> 0,
            ErrorMessage |-> "",
            ClientTransactionID |-> transaction.clientTransactionID,
            ServerTransactionID |-> s.m_transactionCounter,
            Value |-> [t |-> "imagebytes",
                       metadataVersion |-> 1,
                       dataStart |-> 44,
                       imageElementType |-> 2,
                       transmissionElementType |-> 2,
                       rank |-> 2,
                       dimension1 |-> Image(value).width,
                       dimension2 |-> Image(value).height,
                       dimension3 |-> 0,
                       data |-> pixelData(Image(value))],
            binary |-> TRUE]]

\* parseRequestBody: FALSE for an empty body, for a JSON object without
\* members and for text without any key=value pair.
parseRequestBody(body) ==
  IF body.kind = "empty" THEN FALSE
  ELSE IF body.kind = "json" THEN body.has # {}
  ELSE IF body.kind = "form" THEN body.has # {}
  ELSE FALSE

contains(params, key) == key \in params.has
value(params, key) == params.val[key]

\* What a handler decided: the backend after its calls and the envelope to
\* build (createErrorResponse for "error", createSuccessResponse for "success").
Err(b, errorNumber, errorMessage) ==
  [b |-> b, tag |-> "error", num |-> errorNumber, msg |-> errorMessage, val |-> Null]
Ok(b, val) ==
  [b |-> b, tag |-> "success", num |-> 0, msg |-> "", val |-> val]

handleTelescopeAltitude(b) ==
  IF ~b.m_isConnected THEN Err(b, ErrNotConnected, "Not connected to telescope")
  ELSE Ok(b, Num(b.m_status.altPosition))

handleTelescopeAzimuth(b) ==
  IF ~b.m_isConnected THEN Err(b, ErrNotConnected, "Not connected to telescope")
  ELSE Ok(b, Num(b.m_status.azPosition))

handleTelescopeDeclination(b) ==
  IF ~b.m_isConnected THEN Err(b, ErrNotConnected, "Not connected to telescope")
  ELSE Ok(b, Num(b.m_status.decPosition))

handleTelescopeRightAscension(b) ==
  IF ~b.m_isConnected THEN Err(b, ErrNotConnected, "Not connected to telescope")
  ELSE Ok(b, Num(b.m_status.raPosition))

handleTelescopeAtPark(b) ==
  IF ~b.m_isConnected THEN Err(b, ErrNotConnected, "Not connected to telescope")
  ELSE Ok(b, Bool(b.m_status.isParked))

handleTelescopeSlewing(b) ==
  IF ~b.m_isConnected THEN Err(b, ErrNotConnected, "Not connected to telescope")
  ELSE Ok(b, Bool(b.m_status.isSlewing))

\* command = TRUE is the PUT route.
handleTelescopeTracking(b, body, command) ==
  IF ~b.m_isConnected THEN Err(b, ErrNotConnected, "Not connected to telescope")
  ELSE IF command THEN
    IF ~parseRequestBody(body) THEN Err(b, ErrInvalidOperation, "Invalid parameters")
    ELSE IF ~contains(body, "Tracking")
      THEN Err(b, ErrInvalidOperation, "Missing Tracking parameter")
    ELSE LET r == setTracking(b, value(body, "Tracking") # 0)
         IN IF ~r.ok THEN Err(r.b, ErrGeneric, "Failed to set tracking")
            ELSE Ok(r.b, Bool(TRUE))
  ELSE Ok(b, Bool(b.m_status.isTracking))

handleTelescopeAbortSlew(b) ==
  IF ~b.m_isConnected THEN Err(b, ErrNotConnected, "Not connected to telescope")
  ELSE LET r == abortMotion(b)
       IN IF ~r.ok THEN Err(r.b, ErrGeneric, "Failed to abort slew")
          ELSE Ok(r.b, Bool(TRUE))

handleTelescopePark(b) ==
  IF ~b.m_isConnected THEN Err(b, ErrNotConnected, "Not connected to telescope")
  ELSE LET r == parkMount(b)
       IN IF ~r.ok THEN Err(r.b, ErrGeneric, "Failed to park telescope")
          ELSE Ok(r.b, Bool(TRUE))

handleTelescopeUnpark(b) ==
  IF ~b.m_isConnected THEN Err(b, ErrNotConnected, "Not connected to telescope")
  ELSE LET r == unparkMount(b)
       IN IF ~r.ok THEN Err(r.b, ErrGeneric, "Failed to unpark telescope")
          ELSE Ok(r.b, Bool(TRUE))

handleTelescopeFindHome(b) ==
  IF ~b.m_isConnected THEN Err(b, ErrNotConnected, "Not connected to telescope")
  ELSE LET r == initializeTelescope(b)
       IN IF ~r.ok THEN Err(r.b, ErrGeneric, "Failed to initialize telescope")
          ELSE Ok(r.b, Bool(TRUE))

\* Mutant: the slew is commanded before the declination is range-checked.
handleTelescopeSlewToCoordinates_SlewsFirst(b, body) ==
  IF ~b.m_isConnected THEN Err(b, ErrNotConnected, "Not connected to telescope")
  ELSE IF ~parseRequestBody(body) THEN Err(b, ErrInvalidOperation, "Invalid parameters")
  ELSE IF ~contains(body, "RightAscension") \/ ~contains(body, "Declination")
    THEN Err(b, ErrInvalidOperation, "Missing coordinates")
  ELSE LET ra == value(body, "RightAscension")
           dec == value(body, "Declination")
           r == gotoPosition(b, ra, dec)
       IN IF ra < 0 \/ ra >= 24 THEN Err(b, ErrInvalidValue, "Invalid RightAscension value")
          ELSE IF dec < -90 \/ dec > 90
            THEN Err(r.b, ErrInvalidValue, "Invalid Declination value")
          ELSE IF ~r.ok THEN Err(r.b, ErrGeneric, "Failed to slew to coordinates")
          ELSE Ok(r.b, Bool(TRUE))

handleTelescopeSlewToCoordinates(b, body) ==
  IF ~b.m_isConnected THEN Err(b, ErrNotConnected, "Not connected to telescope")
  ELSE IF ~parseRequestBody(body) THEN Err(b, ErrInvalidOperation, "Invalid parameters")
  ELSE IF ~contains(body, "RightAscension") \/ ~contains(body, "Declination")
    THEN Err(b, ErrInvalidOperation, "Missing coordinates")
  ELSE LET ra == value(body, "RightAscension")
           dec == value(body, "Declination")
       IN IF ra < 0 \/ ra >= 24 THEN Err(b, ErrInvalidValue, "Invalid RightAscension value")
          ELSE IF dec < -90 \/ dec > 90
            THEN Err(b, ErrInvalidValue, "Invalid Declination value")
          ELSE LET r == gotoPosition(b, ra, dec)
               IN IF ~r.ok THEN Err(r.b, ErrGeneric, "Failed to slew to coordinates")
                  ELSE Ok(r.b, Bool(TRUE))

handleTelescopeSyncToCoordinates(b, body) ==
  IF ~b.m_isConnected THEN Err(b, ErrNotConnected, "Not connected to telescope")
  ELSE IF ~parseRequestBody(body) THEN Err(b, ErrInvalidOperation, "Invalid parameters")
  ELSE IF ~contains(body, "RightAscension") \/ ~contains(body, "Declination")
    THEN Err(b, ErrInvalidOperation, "Missing coordinates")
  ELSE LET ra == value(body, "RightAscension")
           dec == value(body, "Declination")
       IN IF ra < 0 \/ ra >= 24 THEN Err(b, ErrInvalidValue, "Invalid RightAscension value")
          ELSE IF dec < -90 \/ dec > 90
            THEN Err(b, ErrInvalidValue, "Invalid Declination value")
          ELSE LET r == syncPosition(b, ra, dec)
               IN IF ~r.ok THEN Err(r.b, ErrGeneric, "Failed to sync to coordinates")
                  ELSE Ok(r.b, Bool(TRUE))

Abs(x) == IF x < 0 THEN -x ELSE x
Min(x, y) == IF x < y THEN x ELSE y

IntMax == 2147483647
IntMin == -2147483647 - 1

RECURSIVE Pow10(_)
Pow10(e) == IF e = 0 THEN 1 ELSE 10 * Pow10(e - 1)

\* std::abs(rate * 100) does not fit an int.
castOverflows(rate, exponent) ==
  exponent > 0 /\ (exponent > 9 \/ Abs(rate) > IntMax \div Pow10(exponent))

\* What static_cast<int> may yield for a double outside the range of int
\* (undefined behaviour): the indefinite value of an x86 conversion or the
\* saturated value of an ARM conversion.
CastOutcomes == {IntMin, IntMax}

\* static_cast<int>(std::abs(rate * 100)): truncation toward zero.
castToInt(rate, exponent, outcome) ==
  IF castOverflows(rate, exponent) THEN outcome
  ELSE IF exponent < 0 THEN Abs(rate) \div Pow10(-exponent)
  ELSE Abs(rate) * Pow10(exponent)

\* Mutant: the body is parsed before the connection is checked.
handleTelescopeMoveAxis_ParsesFirst(b, body, outcome) ==
  IF ~parseRequestBody(body) THEN Err(b, ErrInvalidOperation, "Invalid parameters")
  ELSE IF ~b.m_isConnected THEN Err(b, ErrNotConnected, "Not connected to telescope")
  ELSE IF ~contains(body, "Axis") \/ ~contains(body, "Rate")
    THEN Err(b, ErrInvalidOperation, "Missing Axis or Rate parameter")
  ELSE IF value(body, "Axis") \notin {0, 1} THEN Err(b, ErrInvalidValue, "Invalid axis value")
  ELSE Ok(sendCommand(b, "MoveAxis", "Mount"), Bool(TRUE))

\* Rate is given in hundredths, so rate * 100 is the stored number times
\* ten to the power RateExponent.
handleTelescopeMoveAxis(b, body, outcome) ==
  IF ~b.m_isConnected THEN Err(b, ErrNotConnected, "Not connected to telescope")
  ELSE IF ~parseRequestBody(body) THEN Err(b, ErrInvalidOperation, "Invalid parameters")
  ELSE IF ~contains(body, "Axis") \/ ~contains(body, "Rate")
    THEN Err(b, ErrInvalidOperation, "Missing Axis or Rate parameter")
  ELSE LET axis == value(body, "Axis")
           rate == value(body, "Rate")
       IN IF axis \notin {0, 1} THEN Err(b, ErrInvalidValue, "Invalid axis value")
          ELSE LET direction == IF axis = 0 THEN (IF rate >= 0 THEN 2 ELSE 3)
                                ELSE (IF rate >= 0 THEN 0 ELSE 1)
                   speed == Min(100, castToInt(rate, value(body, "RateExponent"), outcome))
                   r == moveDirection(b, direction, speed)
               IN IF ~r.ok THEN Err(r.b, ErrGeneric, "Failed to move axis")
                  ELSE Ok(r.b, Bool(TRUE))

\* Mutant: the error is reported with ErrorNumber 0.
handleTelescopePulseGuide_ZeroError(b) == Err(b, 0, "Pulse guiding not supported")

handleTelescopePulseGuide(b) == Err(b, ErrNotSupported, "Pulse guiding not supported")

handleDeviceAction(b) == Err(b, ErrNotImplemented, "Action not implemented: action")

handleTelescopeCanPark(b) == Ok(b, Bool(TRUE))

\* Mutant: the capability is reported by a connected telescope only.
handleTelescopeCanSlew_WhenConnected(b) ==
  IF ~b.m_isConnected THEN Err(b, ErrNotConnected, "Not connected to telescope")
  ELSE Ok(b, Bool(TRUE))

handleTelescopeCanSlew(b) == Ok(b, Bool(TRUE))

handleManagementVersions(b) == Ok(b, Array(<<Num(1)>>))

handleManagementDescription(b) ==
  Ok(b, Object([ServerName |-> m_serverName,
                Manufacturer |-> m_manufacturer,
                ManufacturerVersion |-> m_manufacturerVersion,
                Location |-> m_location]))

handleManagementConfiguredDevices(b) ==
  Ok(b, Array(<< Object([DeviceName |-> "Celestron Origin Telescope",
                         DeviceType |-> "Telescope",
                         DeviceNumber |-> 0,
                         UniqueID |-> "CelestronOrigin_Telescope_0"]),
                 Object([DeviceName |-> "Celestron Origin Camera",
                         DeviceType |-> "Camera",
                         DeviceNumber |-> 0,
                         UniqueID |-> "CelestronOrigin_Camera_0"]) >>))

handleDeviceDescription(b) == Ok(b, Str("Celestron Origin Telescope"))

handleDeviceDriverInfo(b) == Ok(b, Str("Celestron Origin Alpaca Driver v1.0"))

handleDeviceDriverVersion(b) == Ok(b, Str("1.0"))

handleDeviceInterfaceVersion(b) == Ok(b, Num(1))

handleDeviceName(b) == Ok(b, Str("Celestron Origin"))

handleCameraCameraXSize(b) == Ok(b, Num(4144))

handleCameraCameraYSize(b) == Ok(b, Num(2822))

handleCameraPixelSizeX(b) == Ok(b, Decimal(463, -2))

handleCameraPixelSizeY(b) == Ok(b, Decimal(463, -2))

handleCameraState(b) == Ok(b, Num(IF b.m_isExposing THEN 2 ELSE 0))

handleCameraImageReady(b) == Ok(b, Bool(b.m_imageReady))

handleCameraAbortExposure(b) ==
  LET r == abortExposure(b)
  IN IF ~r.ok THEN Err(r.b, ErrGeneric, "Failed to abort exposure")
     ELSE Ok(r.b, Bool(TRUE))

\* Mutant: the image-ready flag is tested before the connection.
handleCameraImageArray_ReadyFirst(b) ==
  IF ~b.m_imageReady THEN Err(b, ErrGeneric, "No image is ready")
  ELSE IF ~b.m_isConnected THEN Err(b, ErrNotConnected, "Not connected to camera")
  ELSE IF b.m_lastImage = 0 THEN Err(b, ErrGeneric, "Failed to get image")
  ELSE Ok(b, Stored(b.m_lastImage))

\* The part of handleCameraImageArray before the encoding is chosen.
handleCameraImageArray(b) ==
  IF ~b.m_isConnected THEN Err(b, ErrNotConnected, "Not connected to camera")
  ELSE IF ~b.m_imageReady THEN Err(b, ErrGeneric, "No image is ready")
  ELSE IF b.m_lastImage = 0 THEN Err(b, ErrGeneric, "Failed to get image")
  ELSE Ok(b, Stored(b.m_lastImage))

\* Mutant: Duration is read with a default of 0 before its presence is checked.
validateStartExposure_RangeFirst(b, body) ==
  IF ~parseRequestBody(body) THEN Err(b, ErrInvalidOperation, "Invalid parameters")
  ELSE IF (IF contains(body, "Duration") THEN value(body, "Duration") ELSE 0) <= 0
    THEN Err(b, ErrInvalidValue, "Invalid exposure duration")
  ELSE Ok(b, Bool(TRUE))

\* handleCameraStartExposure up to the call of singleShot: "call" means the
\* parameters passed validation.
validateStartExposure(b, body) ==
  IF ~parseRequestBody(body) THEN Err(b, ErrInvalidOperation, "Invalid parameters")
  ELSE IF ~contains(body, "Duration")
    THEN Err(b, ErrInvalidOperation, "Missing Duration parameter")
  ELSE IF value(body, "Duration") <= 0
    THEN Err(b, ErrInvalidValue, "Invalid exposure duration")
  ELSE Ok(b, Bool(TRUE))

\* handleDeviceConnected(command = TRUE) up to the backend call.
validateConnected(b, body) ==
  IF ~parseRequestBody(body) THEN Err(b, ErrInvalidOperation, "Invalid parameters")
  ELSE IF ~contains(body, "Connected")
    THEN Err(b, ErrInvalidOperation, "Missing 'Connected' parameter")
  ELSE Ok(b, Bool(value(body, "Connected") = 1))

\* ------------------------------------------------- blocking calls (frames)
\* uuid is singleShot's local QUuid; 0 in the frame of a connect call.
Frame(kind, phase, ep, body, ctid) ==
  [kind |-> kind, phase |-> phase, quit |-> FALSE, timedOut |-> FALSE,
   notified |-> FALSE, ep |-> ep, body |-> body, ctid |-> ctid, uuid |-> 0]

Top == stack[Len(stack)]
Pop == SubSeq(stack, 1, Len(stack) - 1)

ShotFrames(stk) == {i \in DOMAIN stk : stk[i].kind = "shot"}
ConnectFrames(stk) == {i \in DOMAIN stk : stk[i].kind = "connect"}

\* Every singleShot in its settle delay will still send RunImaging.
Reserved(stk) ==
  Cardinality({i \in DOMAIN stk : stk[i].kind = "shot" /\ stk[i].phase = "settle"})

FitsWithin(b, stk, n) == b.m_nextSequenceId + Reserved(stk) <= SeqStart + n

Fits(b, stk) == FitsWithin(b, stk, MaxCmds)

\* Every frame is a REST request that will still be answered.
RespRoom == server.m_transactionCounter + Len(stack) + 1 <= MaxResp

\* connect(this, &OriginBackend::imageReady, &loop, &QEventLoop::quit)
quitOnImageReady(stk) ==
  [i \in DOMAIN stk |->
     IF stk[i].kind = "shot" /\ stk[i].phase = "wait"
     THEN [stk[i] EXCEPT !.quit = TRUE, !.notified = TRUE]
     ELSE stk[i]]

\* connect(m_webSocket, &QWebSocket::connected, &loop, &QEventLoop::quit)
quitOnConnected(stk) ==
  [i \in DOMAIN stk |->
     IF stk[i].kind = "connect"
     THEN [stk[i] EXCEPT !.quit = TRUE, !.notified = TRUE]
     ELSE stk[i]]

\* Mutant: the transport is opened again even when the session is connected.
connectToTelescopeBegin_Reopens(b) ==
  Done([b EXCEPT !.m_connectedHost = "192.168.1.100", !.ws = "Connecting"], b.m_isConnected)

\* connectToTelescope up to loop.exec(); ok = TRUE is the early return.
connectToTelescopeBegin(b) ==
  IF b.m_isConnected THEN Done(b, TRUE)
  ELSE Done([b EXCEPT !.m_connectedHost = "192.168.1.100", !.ws = "Connecting"], FALSE)

\* singleShot up to loop500.exec(); ok = FALSE is the early return.
singleShotBegin(b) ==
  IF ~b.m_isConnected THEN Done(b, FALSE)
  ELSE Done(sendCommand([b EXCEPT !.uuids = @ + 1,
                                  !.m_currentImagingSession = b.uuids + 1],
                        "SetCaptureParameters", "Camera"), TRUE)

\* singleShot between the two loops.
singleShotTrigger(b) ==
  [sendCommandU(b, "RunImaging", "TaskController", b.m_currentImagingSession)
     EXCEPT !.m_isExposing = TRUE, !.m_imageReady = FALSE]

\* singleShot after loop.exec(): the image returned is 0 for a null QImage.
singleShotEnd(b) ==
  [b |-> [b EXCEPT !.m_isExposing = FALSE],
   image |-> IF b.m_imageReady THEN b.m_lastImage ELSE 0]

\* handleCameraStartExposure after singleShot returned.
startExposureReply(b, image) ==
  Ok(IF image # 0 THEN [b EXCEPT !.m_lastImage = image, !.m_imageReady = TRUE] ELSE b,
     Bool(TRUE))

\* handleDeviceConnected after connectToTelescope returned.
connectedReply(b, success) ==
  IF ~success THEN Err(b, ErrGeneric, "Failed to connect to telescope")
  ELSE Ok(b, Bool(b.m_isConnected))

\* Mutant: the poll timer and the initial query are set up on the first
\* connection only.
onWebSocketConnected_FirstOnly(b) ==
  LET b1 == [b EXCEPT !.m_isConnected = TRUE, !.m_status.isConnected = TRUE]
  IN IF b.m_nextSequenceId = SeqStart
     THEN sendCommand([b1 EXCEPT !.timerActive = TRUE], "GetStatus", "System")
     ELSE b1

\* Mutant: every new connection starts its sequence ids afresh.
onWebSocketConnected_RestartsIds(b) ==
  sendCommand([b EXCEPT !.m_isConnected = TRUE,
                        !.m_status.isConnected = TRUE,
                        !.timerActive = TRUE,
                        !.m_nextSequenceId = SeqStart],
              "GetStatus", "System")

onWebSocketConnected(b) ==
  sendCommand([b EXCEPT !.m_isConnected = TRUE,
                        !.m_status.isConnected = TRUE,
                        !.timerActive = TRUE],
              "GetStatus", "System")

onWebSocketDisconnected(b) ==
  [b EXCEPT !.m_isConnected = FALSE,
            !.m_status.isConnected = FALSE,
            !.timerActive = FALSE]

\* ------------------------------------------------------------ AutoDownloader
\* AutoDownloader after its constructor.  replies counts the HTTP downloads in
\* flight, requests the GetListOfAvailableDirectories commands not yet
\* answered, runs the calls of startDownload, and completions the
\* allDownloadsComplete signals emitted since the last of them.
InitDownloader ==
  [totalFiles |-> 0,
   filesCompleted |-> 0,
   downloadInProgress |-> FALSE,
   directoryQueue |-> <<>>,
   replies |-> 0,
   requests |-> 0,
   runs |-> 0,
   completions |-> 0]

\* Directory lists the telescope may answer with.
DirectoryLists == {<<>>, <<"a">>, <<"a", "b">>}

allDownloadsComplete(d) == [d EXCEPT !.completions = @ + 1]

startDownload(d) ==
  [d EXCEPT !.totalFiles = 0,
            !.filesCompleted = 0,
            !.directoryQueue = <<>>,
            !.requests = @ + 1,
            !.runs = @ + 1,
            !.completions = 0]

downloadStackedImage(d) ==
  [d EXCEPT !.replies = @ + 1, !.downloadInProgress = TRUE]

processNextDirectory(d) ==
  IF d.directoryQueue = <<>>
  THEN IF ~d.downloadInProgress THEN allDownloadsComplete(d) ELSE d
  ELSE downloadStackedImage([d EXCEPT !.directoryQueue = Tail(@)])

processDirectoryList(d, dirList) ==
  IF dirList = <<>> THEN allDownloadsComplete(d)
  ELSE processNextDirectory([d EXCEPT !.directoryQueue = @ \o dirList,
                                      !.totalFiles = @ + Len(dirList)])

onFileDownloaded(d) ==
  LET d1 == processNextDirectory([d EXCEPT !.replies = @ - 1,
                                           !.filesCompleted = @ + 1,
                                           !.downloadInProgress = FALSE])
  IN IF d1.directoryQueue = <<>> /\ ~d1.downloadInProgress
     THEN allDownloadsComplete(d1)
     ELSE d1

\* QNetworkReply::abort emits finished before it returns, so the reply found
\* runs onFileDownloaded inside stopDownload.
stopDownload(d) ==
  LET d1 == [d EXCEPT !.directoryQueue = <<>>]
  IN IF ~d1.downloadInProgress THEN d1
     ELSE [(IF d1.replies > 0 THEN onFileDownloaded(d1) ELSE d1)
             EXCEPT !.downloadInProgress = FALSE]

\* ------------------------------------------------------------ responses
InitResp ==
  [n |-> 0, ep |-> "none", body |-> EmptyBody, ctid |-> NoItem,
   timedOut |-> FALSE, notified |-> FALSE,
   env |-> [ErrorNumber |-> 0, ErrorMessage |-> "", ClientTransactionID |-> 0,
            ServerTransactionID |-> -1, Value |-> Null, binary |-> FALSE]]

envelope(s, d, ctid, binary) ==
  IF d.tag = "error" THEN createErrorResponse(s, d.num, d.msg)
  ELSE IF binary THEN createImageBytesResponse(s, d.val.v, parseClientTransaction(ctid))
  ELSE IF d.val.t = "image"
    THEN createSuccessResponse(s, Pixels(d.val.v), parseClientTransaction(ctid))
  ELSE createSuccessResponse(s, d.val, parseClientTransaction(ctid))

Reply(ep, body, ctid, d, binary, timedOut, notified) ==
  LET r == envelope(server, d, ctid, binary)
  IN /\ server' = r.s
     /\ resp' = [n |-> resp.n + 1, ep |-> ep, body |-> body, ctid |-> ctid,
                 timedOut |-> timedOut, notified |-> notified, env |-> r.env]
     /\ lost' = IF ep = "connected_put" /\ r.env.ErrorNumber = 0 /\ r.env.Value = Bool(TRUE)
                THEN FALSE ELSE lost
     /\ UNCHANGED downloader

\* A handler that runs to completion without entering an event loop.
Atomic(ep, body, ctid, d, binary) ==
  /\ RespRoom
  /\ Fits(d.b, stack)
  /\ backend' = d.b
  /\ Reply(ep, body, ctid, d, binary, FALSE, FALSE)
  /\ UNCHANGED <<stack, conn>>

\* ------------------------------------------------------------ REST handlers
HandleTelescopeAltitudeWith(items) ==
  \E ct \in items : Atomic("altitude", EmptyBody, ct, handleTelescopeAltitude(backend), FALSE)

HandleTelescopeAltitude == HandleTelescopeAltitudeWith(CtIds)

HandleTelescopeAzimuth ==
  \E ct \in CtIds : Atomic("azimuth", EmptyBody, ct, handleTelescopeAzimuth(backend), FALSE)

HandleTelescopeDeclination ==
  \E ct \in CtIds :
    Atomic("declination", EmptyBody, ct, handleTelescopeDeclination(backend), FALSE)

HandleTelescopeRightAscension ==
  \E ct \in CtIds :
    Atomic("rightascension", EmptyBody, ct, handleTelescopeRightAscension(backend), FALSE)

HandleTelescopeAtPark ==
  \E ct \in CtIds : Atomic("atpark", EmptyBody, ct, handleTelescopeAtPark(backend), FALSE)

HandleTelescopeSlewing ==
  \E ct \in CtIds : Atomic("slewing", EmptyBody, ct, handleTelescopeSlewing(backend), FALSE)

HandleTelescopeTrackingGet ==
  \E ct \in CtIds :
    Atomic("tracking", EmptyBody, ct, handleTelescopeTracking(backend, EmptyBody, FALSE), FALSE)

HandleTelescopeTrackingPut ==
  \E body \in TrackingBodies, ct \in CtIds :
    Atomic("tracking_put", body, ct, handleTelescopeTracking(backend, body, TRUE), FALSE)

HandleTelescopeAbortSlew ==
  \E ct \in CtIds : Atomic("abortslew", EmptyBody, ct, handleTelescopeAbortSlew(backend), FALSE)

HandleTelescopePark ==
  \E ct \in CtIds : Atomic("park", EmptyBody, ct, handleTelescopePark(backend), FALSE)

HandleTelescopeUnpark ==
  \E ct \in CtIds : Atomic("unpark", EmptyBody, ct, handleTelescopeUnpark(backend), FALSE)

HandleTelescopeFindHome ==
  \E ct \in CtIds : Atomic("findhome", EmptyBody, ct, handleTelescopeFindHome(backend), FALSE)

HandleTelescopeSlewToCoordinates ==
  \E body \in CoordBodies, ct \in CtIds :
    Atomic("slewtocoordinates", body, ct, handleTelescopeSlewToCoordinates(backend, body), FALSE)

HandleTelescopeSyncToCoordinates ==
  \E body \in CoordBodies, ct \in CtIds :
    Atomic("synctocoordinates", body, ct, handleTelescopeSyncToCoordinates(backend, body), FALSE)

HandleTelescopeMoveAxisWith(bodies) ==
  \E body \in bodies, ct \in CtIds, outcome \in CastOutcomes :
    Atomic("moveaxis", body, ct, handleTelescopeMoveAxis(backend, body, outcome), FALSE)

HandleTelescopeMoveAxis == HandleTelescopeMoveAxisWith(AxisBodies)

HandleTelescopePulseGuide ==
  \E ct \in CtIds : Atomic("pulseguide", EmptyBody, ct, handleTelescopePulseGuide(backend), FALSE)

HandleDeviceAction ==
  \E ct \in CtIds : Atomic("action", EmptyBody, ct, handleDeviceAction(backend), FALSE)

HandleTelescopeCanParkWith(items) ==
  \E ct \in items : Atomic("canpark", EmptyBody, ct, handleTelescopeCanPark(backend), FALSE)

HandleTelescopeCanPark == HandleTelescopeCanParkWith(CtIds)

HandleCameraState ==
  \E ct \in CtIds : Atomic("camerastate", EmptyBody, ct, handleCameraState(backend), FALSE)

HandleCameraImageReady ==
  \E ct \in CtIds : Atomic("imageready", EmptyBody, ct, handleCameraImageReady(backend), FALSE)

HandleCameraAbortExposure ==
  \E ct \in CtIds :
    Atomic("abortexposure", EmptyBody, ct, handleCameraAbortExposure(backend), FALSE)

\* accept = TRUE: the Accept header names application/imagebytes.
HandleCameraImageArray ==
  \E ct \in CtIds, accept \in BOOLEAN :
    Atomic("imagearray", EmptyBody, ct, handleCameraImageArray(backend), accept)

HandleDeviceConnectedGetWith(items) ==
  \E ct \in items :
    Atomic("connected", EmptyBody, ct, Ok(backend, Bool(backend.m_isConnected)), FALSE)

HandleDeviceConnectedGet == HandleDeviceConnectedGetWith(CtIds)

\* PUT connected: answered at once unless connectToTelescope has to wait.
HandleDeviceConnectedPutWith(items) ==
  \E body \in ConnectedBodies, ct \in items :
    LET v == validateConnected(backend, body)
        connected == v.val.v = 1
    IN IF v.tag = "error" THEN Atomic("connected_put", body, ct, v, FALSE)
       ELSE IF connected /\ ~backend.m_isConnected THEN
         /\ RespRoom
         /\ Len(stack) < MaxDepth
         /\ backend' = connectToTelescopeBegin(backend).b
         /\ stack' = Append(stack, Frame("connect",
                                         IF backend.ws = "Closing" THEN "reopen" ELSE "open",
                                         "connected_put", body, ct))
         /\ conn' = "calling"
         /\ UNCHANGED <<server, resp, lost, downloader>>
       ELSE IF ~connected /\ backend.m_isConnected THEN
         LET b1 == disconnectFromTelescope(backend)
         IN Atomic("connected_put", body, ct, Ok(b1, Bool(b1.m_isConnected)), FALSE)
       ELSE Atomic("connected_put", body, ct, Ok(backend, Bool(backend.m_isConnected)), FALSE)

HandleDeviceConnectedPut == HandleDeviceConnectedPutWith(CtIds)

\* PUT startexposure: answered at once on a validation error or when
\* singleShot returns early; otherwise singleShot enters its settle delay.
HandleCameraStartExposure ==
  \E body \in DurationBodies, ct \in CtIds :
    LET v == validateStartExposure(backend, body)
        s == singleShotBegin(backend)
    IN IF v.tag = "error" THEN Atomic("startexposure", body, ct, v, FALSE)
       ELSE IF ~s.ok THEN
         Atomic("startexposure", body, ct, startExposureReply(s.b, 0), FALSE)
       ELSE
         /\ RespRoom
         /\ Len(stack) < MaxDepth
         /\ stack' = Append(stack, [Frame("shot", "settle", "startexposure", body, ct)
                                      EXCEPT !.uuid = s.b.uuids])
         /\ Fits(s.b, stack')
         /\ backend' = s.b
         /\ UNCHANGED <<server, resp, conn, lost, downloader>>

\* ------------------------------------------------------------ event loop
\* QTimer::singleShot(500, &loop500, &QEventLoop::quit)
SettleTimeout ==
  \E i \in DOMAIN stack :
    /\ stack[i].kind = "shot" /\ stack[i].phase = "settle" /\ ~stack[i].quit
    /\ stack' = [stack EXCEPT ![i].quit = TRUE]
    /\ UNCHANGED <<backend, server, resp, conn, lost, downloader>>

\* loop500.exec() returned: RunImaging is sent and the wait begins.
SingleShotTrigger ==
  /\ stack # <<>>
  /\ Top.kind = "shot" /\ Top.phase = "settle" /\ Top.quit
  /\ backend' = singleShotTrigger(backend)
  /\ stack' = [stack EXCEPT ![Len(stack)].phase = "wait", ![Len(stack)].quit = FALSE]
  /\ UNCHANGED <<server, resp, conn, lost, downloader>>

\* timeoutTimer of singleShot (exposure time + 30 s)
ExposureTimeout ==
  \E i \in DOMAIN stack :
    /\ stack[i].kind = "shot" /\ stack[i].phase = "wait" /\ ~stack[i].quit
    /\ stack' = [stack EXCEPT ![i].quit = TRUE, ![i].timedOut = TRUE]
    /\ UNCHANGED <<backend, server, resp, conn, lost, downloader>>

\* loop.exec() of singleShot returned; the handler builds its response.
SingleShotReturn ==
  /\ stack # <<>>
  /\ Top.kind = "shot" /\ Top.phase = "wait" /\ Top.quit
  /\ LET e == singleShotEnd(backend)
         d == startExposureReply(e.b, e.image)
     IN /\ backend' = d.b
        /\ Reply(Top.ep, Top.body, Top.ctid, d, FALSE, Top.timedOut, Top.notified)
  /\ stack' = Pop
  /\ UNCHANGED conn

\* timeoutTimer of connectToTelescope (10 s)
ConnectTimeout ==
  \E i \in DOMAIN stack :
    /\ stack[i].kind = "connect" /\ ~stack[i].quit
    /\ stack' = [stack EXCEPT ![i].quit = TRUE, ![i].timedOut = TRUE]
    /\ UNCHANGED <<backend, server, resp, conn, lost, downloader>>

\* loop.exec() of connectToTelescope returned; the handler builds its response.
ConnectReturn ==
  /\ stack # <<>>
  /\ Top.kind = "connect" /\ Top.quit
  /\ LET success == backend.m_isConnected
         d == connectedReply(backend, success)
     IN /\ backend' = d.b
        /\ Reply(Top.ep, Top.body, Top.ctid, d, FALSE, Top.timedOut, Top.notified)
        /\ conn' = IF success THEN "ok" ELSE IF Top.timedOut THEN "timedout" ELSE "failed"
  /\ stack' = Pop

\* ------------------------------------------------------------ native side
\* The transport reaches the connected state.
WsConnected ==
  /\ backend.ws = "Connecting"
  /\ LET b1 == onWebSocketConnected([backend EXCEPT !.ws = "Connected"])
     IN /\ Fits(b1, stack)
        /\ backend' = b1
  /\ stack' = quitOnConnected(stack)
  /\ UNCHANGED <<server, resp, conn, lost, downloader>>

\* The transport is lost, refused or has finished closing.
WsDisconnected ==
  /\ backend.ws \in {"Connecting", "Connected", "Closing"}
  /\ backend' = onWebSocketDisconnected([backend EXCEPT !.ws = "Unconnected"])
  /\ lost' = (lost \/ backend.ws = "Connected")
  /\ UNCHANGED <<server, stack, resp, conn, downloader>>

\* m_statusTimer fires (every 2 s while active).
StatusTimerTickWithin(n) ==
  /\ backend.timerActive
  /\ backend.m_isConnected
  /\ backend' = updateStatus(backend)
  /\ FitsWithin(backend', stack, n)
  /\ UNCHANGED <<server, stack, resp, conn, lost, downloader>>

StatusTimerTick == StatusTimerTickWithin(MaxCmds)

\* onTextMessageReceived for a mount status packet: the processor stores it
\* and emits mountStatusUpdated (connected to updateStatus).
\* Mutant: a blocking call in progress keeps inbound messages from being
\* processed until it has returned.
OnMountMessageWithin_Blocked(n) ==
  \E m \in MountMsgs :
    /\ stack = <<>>
    /\ backend.ws = "Connected"
    /\ backend' = updateStatusFromProcessor(updateStatus(processJsonPacket(backend, m)))
    /\ FitsWithin(backend', stack, n)
    /\ UNCHANGED <<server, stack, resp, conn, lost, downloader>>

OnMountMessageWithin(n) ==
  \E m \in MountMsgs :
    /\ backend.ws = "Connected"
    /\ backend' = updateStatusFromProcessor(updateStatus(processJsonPacket(backend, m)))
    /\ FitsWithin(backend', stack, n)
    /\ UNCHANGED <<server, stack, resp, conn, lost, downloader>>

OnMountMessage == OnMountMessageWithin(MaxCmds)

\* onTextMessageReceived for the NewImageReady notification of ImageServer:
\* the processor emits newImageAvailable (connected to the imageReady signal),
\* then the file is requested when FileLocation is not empty.
OnImageNotification ==
  \E hasPath \in BOOLEAN :
    /\ backend.ws = "Connected"
    /\ backend.downloads < MaxDownloads
    /\ backend' = IF hasPath THEN requestImage(updateStatusFromProcessor(backend))
                  ELSE updateStatusFromProcessor(backend)
    /\ stack' = quitOnImageReady(stack)
    /\ UNCHANGED <<server, resp, conn, lost, downloader>>

\* onTextMessageReceived for a packet that carries no mount fields (an
\* Environment or Camera response): the processor keeps its mount data and
\* reports the packet as processed.
OnEnvironmentMessage ==
  /\ backend.ws = "Connected"
  /\ backend' = updateStatusFromProcessor(backend)
  /\ UNCHANGED <<server, stack, resp, conn, lost, downloader>>

\* onImageDownloaded: the reply of the file request has finished.
OnImageDownloaded ==
  \E outcome \in {"ok", "undecodable", "error"} :
    /\ backend.downloads > 0
    /\ IF outcome = "ok"
       THEN /\ backend' = [backend EXCEPT !.downloads = @ - 1,
                                          !.m_lastImage = 1,
                                          !.m_imageReady = TRUE]
            /\ stack' = quitOnImageReady(stack)
       ELSE /\ backend' = [backend EXCEPT !.downloads = @ - 1]
            /\ stack' = stack
    /\ UNCHANGED <<server, resp, conn, lost, downloader>>

\* onTextMessageReceived for a message of UnmatchedMsgs; dropped counts them.
OnUnmatchedMessage ==
  \E msg \in UnmatchedMsgs :
    /\ backend.ws = "Connected"
    /\ backend.dropped < MaxDropped
    /\ backend' = [onTextMessageReceived(backend, msg) EXCEPT !.dropped = @ + 1]
    /\ backend'.downloads <= MaxDownloads
    /\ UNCHANGED <<server, stack, resp, conn, lost, downloader>>

\* ------------------------------------------------------------ specification
Init ==
  /\ backend = InitBackend
  /\ server = ServingServer
  /\ stack = <<>>
  /\ resp = InitResp
  /\ conn = "none"
  /\ lost = FALSE
  /\ downloader = InitDownloader

Next ==
  \/ HandleTelescopeAltitude
  \/ HandleTelescopeAzimuth
  \/ HandleTelescopeDeclination
  \/ HandleTelescopeRightAscension
  \/ HandleTelescopeAtPark
  \/ HandleTelescopeSlewing
  \/ HandleTelescopeTrackingGet
  \/ HandleTelescopeTrackingPut
  \/ HandleTelescopeAbortSlew
  \/ HandleTelescopePark
  \/ HandleTelescopeUnpark
  \/ HandleTelescopeFindHome
  \/ HandleTelescopeSlewToCoordinates
  \/ HandleTelescopeSyncToCoordinates
  \/ HandleTelescopeMoveAxis
  \/ HandleTelescopePulseGuide
  \/ HandleDeviceAction
  \/ HandleTelescopeCanPark
  \/ HandleCameraState
  \/ HandleCameraImageReady
  \/ HandleCameraAbortExposure
  \/ HandleCameraImageArray
  \/ HandleDeviceConnectedGet
  \/ HandleDeviceConnectedPut
  \/ HandleCameraStartExposure
  \/ SettleTimeout
  \/ SingleShotTrigger
  \/ ExposureTimeout
  \/ SingleShotReturn
  \/ ConnectTimeout
  \/ ConnectReturn
  \/ WsConnected
  \/ WsDisconnected
  \/ StatusTimerTick
  \/ OnMountMessage
  \/ OnEnvironmentMessage
  \/ OnImageNotification
  \/ OnImageDownloaded

Spec == Init /\ [][Next]_vars

\* The application hands the backend to the server.
SetTelescopeBackend ==
  /\ server' = setTelescopeBackend(server)
  /\ UNCHANGED <<backend, stack, resp, conn, lost, downloader>>

\* A call of start; a call that brings the server into the running state is
\* recorded in startedOn.
Start ==
  \E port \in Ports, free \in BOOLEAN, binds \in BOOLEAN :
    LET r == start(server, port, free, binds)
    IN /\ Len(r.s.datagrams) <= MaxDatagrams
       /\ server' = IF r.s.m_running /\ ~server.m_running
                      THEN [r.s EXCEPT !.startedOn = port]
                      ELSE r.s
       /\ UNCHANGED <<backend, stack, resp, conn, lost, downloader>>

Stop ==
  /\ server' = stop(server)
  /\ UNCHANGED <<backend, stack, resp, conn, lost, downloader>>

\* m_discoveryTimer fires (every 30 s while active).
DiscoveryTimeout ==
  /\ server.m_discoveryTimer
  /\ Len(server.datagrams) < MaxDatagrams
  /\ server' = sendDiscoveryBroadcast(server)
  /\ UNCHANGED <<backend, stack, resp, conn, lost, downloader>>

\* The life of the server from its construction.
DiscoveryInit ==
  /\ backend = InitBackend
  /\ server = InitServer
  /\ stack = <<>>
  /\ resp = InitResp
  /\ conn = "none"
  /\ lost = FALSE
  /\ downloader = InitDownloader

DiscoveryNext ==
  \/ SetTelescopeBackend
  \/ Start
  \/ Stop
  \/ DiscoveryTimeout

DiscoverySpec == DiscoveryInit /\ [][DiscoveryNext]_vars

\* Requests with any of the query items, in sessions that connect and
\* disconnect.
TransactionNext ==
  \/ HandleTelescopeAltitudeWith(QueryItems)
  \/ HandleTelescopeCanParkWith(QueryItems)
  \/ HandleDeviceConnectedGetWith(QueryItems)
  \/ HandleDeviceConnectedPutWith(QueryItems)
  \/ ConnectTimeout
  \/ ConnectReturn
  \/ WsConnected
  \/ WsDisconnected

TransactionSpec == Init /\ [][TransactionNext]_vars

\* onTextMessageReceived for the Response of the telescope to a transmitted
\* command; the SequenceIDs answered so far are kept in answered.  The
\* response to a mount status query carries the mount fields.
OnResponseWithin(n) ==
  \E i \in DOMAIN backend.sent :
    LET c == backend.sent[i]
    IN /\ backend.ws = "Connected"
       /\ c.id \notin backend.answered
       /\ IF c.dest = "Mount" /\ c.cmd = "GetStatus"
          THEN \E m \in MountMsgs :
                 backend' = [updateStatusFromProcessor(updateStatus(processJsonPacket(backend, m)))
                               EXCEPT !.answered = @ \cup {c.id}]
          ELSE backend' = [updateStatusFromProcessor(backend)
                             EXCEPT !.answered = @ \cup {c.id}]
       /\ FitsWithin(backend', stack, n)
       /\ UNCHANGED <<server, stack, resp, conn, lost, downloader>>

OnResponse == OnResponseWithin(MaxCmds)

\* Sessions whose commands the telescope answers.
ResponseNext ==
  \/ HandleDeviceConnectedPut
  \/ HandleTelescopePark
  \/ ConnectTimeout
  \/ ConnectReturn
  \/ WsConnected
  \/ WsDisconnected
  \/ StatusTimerTick
  \/ OnResponse

ResponseSpec == Init /\ [][ResponseNext]_vars

\* Connected sessions polled by the timer, with the telescope answering and
\* room for the queries of a tick and of what follows it.
PollNext ==
  \/ HandleDeviceConnectedPut
  \/ ConnectTimeout
  \/ ConnectReturn
  \/ WsConnected
  \/ WsDisconnected
  \/ StatusTimerTickWithin(MaxPollCmds)
  \/ OnResponseWithin(MaxPollCmds)

PollSpec == Init /\ [][PollNext]_vars

\* moveaxis requests over the rates of RateBodies, in sessions that connect
\* and disconnect.
MoveAxisNext ==
  \/ HandleTelescopeMoveAxisWith(RateBodies)
  \/ HandleDeviceConnectedPut
  \/ ConnectTimeout
  \/ ConnectReturn
  \/ WsConnected
  \/ WsDisconnected

MoveAxisSpec == Init /\ [][MoveAxisNext]_vars

\* The REST handlers of the capability and fixed-property routes.
HandleTelescopeCanSlew ==
  \E ct \in CtIds : Atomic("canslew", EmptyBody, ct, handleTelescopeCanSlew(backend), FALSE)

HandleManagementVersions ==
  \E ct \in CtIds :
    Atomic("management/apiversions", EmptyBody, ct, handleManagementVersions(backend), FALSE)

HandleManagementDescription ==
  \E ct \in CtIds :
    Atomic("management/v1/description", EmptyBody, ct,
           handleManagementDescription(backend), FALSE)

HandleManagementConfiguredDevices ==
  \E ct \in CtIds :
    Atomic("management/v1/configureddevices", EmptyBody, ct,
           handleManagementConfiguredDevices(backend), FALSE)

HandleDeviceDescription ==
  \E ct \in CtIds :
    Atomic("description", EmptyBody, ct, handleDeviceDescription(backend), FALSE)

HandleDeviceDriverInfo ==
  \E ct \in CtIds : Atomic("driverinfo", EmptyBody, ct, handleDeviceDriverInfo(backend), FALSE)

HandleDeviceDriverVersion ==
  \E ct \in CtIds :
    Atomic("driverversion", EmptyBody, ct, handleDeviceDriverVersion(backend), FALSE)

HandleDeviceInterfaceVersion ==
  \E ct \in CtIds :
    Atomic("interfaceversion", EmptyBody, ct, handleDeviceInterfaceVersion(backend), FALSE)

HandleDeviceName ==
  \E ct \in CtIds : Atomic("name", EmptyBody, ct, handleDeviceName(backend), FALSE)

HandleCameraCameraXSize ==
  \E ct \in CtIds :
    Atomic("cameraxsize", EmptyBody, ct, handleCameraCameraXSize(backend), FALSE)

HandleCameraCameraYSize ==
  \E ct \in CtIds :
    Atomic("cameraysize", EmptyBody, ct, handleCameraCameraYSize(backend), FALSE)

HandleCameraPixelSizeX ==
  \E ct \in CtIds : Atomic("pixelsizex", EmptyBody, ct, handleCameraPixelSizeX(backend), FALSE)

HandleCameraPixelSizeY ==
  \E ct \in CtIds : Atomic("pixelsizey", EmptyBody, ct, handleCameraPixelSizeY(backend), FALSE)

\* The fixed-property routes, served in sessions that connect, expose and lose
\* the transport.
PropertiesNext ==
  \/ HandleTelescopeCanPark
  \/ HandleTelescopeCanSlew
  \/ HandleManagementVersions
  \/ HandleManagementDescription
  \/ HandleManagementConfiguredDevices
  \/ HandleDeviceDescription
  \/ HandleDeviceDriverInfo
  \/ HandleDeviceDriverVersion
  \/ HandleDeviceInterfaceVersion
  \/ HandleDeviceName
  \/ HandleCameraCameraXSize
  \/ HandleCameraCameraYSize
  \/ HandleCameraPixelSizeX
  \/ HandleCameraPixelSizeY
  \/ HandleDeviceConnectedPut
  \/ HandleCameraStartExposure
  \/ SettleTimeout
  \/ SingleShotTrigger
  \/ ExposureTimeout
  \/ SingleShotReturn
  \/ ConnectTimeout
  \/ ConnectReturn
  \/ WsConnected
  \/ WsDisconnected
  \/ OnImageNotification
  \/ OnImageDownloaded

PropertiesSpec == Init /\ [][PropertiesNext]_vars

\* Connecting and exposing, with the native side's messages and the poll
\* timer, which have room for the status queries they send during an exposure.
ExposureNext ==
  \/ HandleDeviceConnectedPut
  \/ HandleCameraStartExposure
  \/ SettleTimeout
  \/ SingleShotTrigger
  \/ ExposureTimeout
  \/ SingleShotReturn
  \/ ConnectTimeout
  \/ ConnectReturn
  \/ WsConnected
  \/ WsDisconnected
  \/ StatusTimerTickWithin(MaxPollCmds)
  \/ OnMountMessageWithin(MaxPollCmds)
  \/ OnImageNotification
  \/ OnEnvironmentMessage
  \/ OnImageDownloaded

ExposureSpec == Init /\ [][ExposureNext]_vars

\* Sessions that slew, expose and receive messages of every kind.
InboundNext ==
  \/ HandleDeviceConnectedPut
  \/ HandleTelescopeSlewToCoordinates
  \/ HandleCameraStartExposure
  \/ SettleTimeout
  \/ SingleShotTrigger
  \/ ExposureTimeout
  \/ SingleShotReturn
  \/ ConnectTimeout
  \/ ConnectReturn
  \/ WsConnected
  \/ WsDisconnected
  \/ OnMountMessage
  \/ OnImageNotification
  \/ OnImageDownloaded
  \/ OnUnmatchedMessage

InboundSpec == Init /\ [][InboundNext]_vars

\* The NewImageReady notification arrives while no singleShot call waits for
\* an image: before a call, during its settle delay, or after it returned.
OnStrayNotification ==
  /\ \A i \in DOMAIN stack : ~(stack[i].kind = "shot" /\ stack[i].phase = "wait")
  /\ OnImageNotification

\* Exposures in sessions whose every image notification is a stray one.
StrayNext ==
  \/ HandleDeviceConnectedPut
  \/ HandleCameraStartExposure
  \/ SettleTimeout
  \/ SingleShotTrigger
  \/ ExposureTimeout
  \/ SingleShotReturn
  \/ ConnectTimeout
  \/ ConnectReturn
  \/ WsConnected
  \/ WsDisconnected
  \/ OnStrayNotification
  \/ OnImageDownloaded

StraySpec == Init /\ [][StrayNext]_vars

\* The user starts the automatic download.
StartDownload ==
  /\ downloader.runs < MaxRuns
  /\ downloader' = startDownload(downloader)
  /\ UNCHANGED <<backend, server, stack, resp, conn, lost>>

\* The user stops the automatic download.
StopDownload ==
  /\ downloader.runs > 0
  /\ downloader' = stopDownload(downloader)
  /\ downloader'.completions <= MaxCompletions
  /\ UNCHANGED <<backend, server, stack, resp, conn, lost>>

\* AutoDownloader::onTextMessageReceived for the Response to
\* GetListOfAvailableDirectories.
OnDirectoryList ==
  \E dirList \in DirectoryLists :
    /\ downloader.requests > 0
    /\ downloader' = [processDirectoryList(downloader, dirList) EXCEPT !.requests = @ - 1]
    /\ downloader'.replies <= MaxReplies
    /\ downloader'.completions <= MaxCompletions
    /\ UNCHANGED <<backend, server, stack, resp, conn, lost>>

\* The finished signal of a download in flight.
OnFileDownloaded ==
  /\ downloader.replies > 0
  /\ downloader' = onFileDownloaded(downloader)
  /\ downloader'.completions <= MaxCompletions
  /\ UNCHANGED <<backend, server, stack, resp, conn, lost>>

DownloaderNext ==
  \/ StartDownload
  \/ OnDirectoryList
  \/ OnFileDownloaded
  \/ StopDownload

DownloaderSpec == Init /\ [][DownloaderNext]_vars

\* The session after a first successful connect.
ConnectedBackend ==
  onWebSocketConnected([connectToTelescopeBegin(InitBackend).b EXCEPT !.ws = "Connected"])

\* Sessions as image downloads and exposures leave them: any stored image,
\* image-ready set by the download or reset by a later RunImaging, connected
\* or disconnected since.
ImageBackends ==
  LET stored == {ConnectedBackend} \cup
                {[ConnectedBackend EXCEPT !.m_lastImage = i, !.m_imageReady = r] :
                   i \in ImageIds, r \in BOOLEAN}
  IN stored \cup {disconnectFromTelescope(b) : b \in stored}

ImageInit ==
  /\ backend \in ImageBackends
  /\ server = ServingServer
  /\ stack = <<>>
  /\ resp = InitResp
  /\ conn = "ok"
  /\ lost = FALSE
  /\ downloader = InitDownloader

ImageNext == HandleCameraImageArray

\* The imagearray endpoint over every stored image.
ImageSpec == ImageInit /\ [][ImageNext]_vars

\* Blocking calls and what can happen while they wait, with the fairness the
\* event loop gives: an armed timer fires, and a loop that was quit returns
\* once control is back in it.
NextBlocking ==
  \/ HandleDeviceConnectedGet
  \/ HandleDeviceConnectedPut
  \/ HandleCameraStartExposure
  \/ HandleCameraAbortExposure
  \/ HandleCameraImageReady
  \/ SettleTimeout
  \/ SingleShotTrigger
  \/ ExposureTimeout
  \/ SingleShotReturn
  \/ ConnectTimeout
  \/ ConnectReturn
  \/ WsConnected
  \/ WsDisconnected
  \/ OnMountMessage
  \/ OnImageNotification
  \/ OnImageDownloaded

FairSpec ==
  /\ Init
  /\ [][NextBlocking]_vars
  /\ WF_vars(SettleTimeout)
  /\ WF_vars(SingleShotTrigger)
  /\ WF_vars(ExposureTimeout)
  /\ WF_vars(SingleShotReturn)
  /\ WF_vars(ConnectTimeout)
  /\ WF_vars(ConnectReturn)

\* ------------------------------------------------------------ properties
\* A response was written in this step.
Responded == resp'.n # resp.n

\* A startexposure request was dispatched in this step: its handler either
\* entered singleShot's settle loop or answered at once.
StartExposureArrived ==
  \/ Len(stack') = Len(stack) + 1 /\ stack'[Len(stack')].kind = "shot"
  \/ Responded /\ resp'.ep = "startexposure" /\ Len(stack') = Len(stack)

\* C1: while a singleShot call has not returned, a further startexposure is
\* rejected at once: it enters no wait, sends no command, and leaves the
\* imaging session identifier and the exposing/image-ready flags alone.
C1_SecondExposureRejected ==
  [][ (ShotFrames(stack) # {} /\ StartExposureArrived) =>
        /\ Len(stack') = Len(stack)
        /\ backend'.sent = backend.sent
        /\ backend'.m_nextSequenceId = backend.m_nextSequenceId
        /\ backend'.m_currentImagingSession = backend.m_currentImagingSession
        /\ backend'.m_isExposing = backend.m_isExposing
        /\ backend'.m_imageReady = backend.m_imageReady ]_vars

\* C2: a startexposure whose wait ended by its timeout, with no image-ready
\* signal, is answered with an error, and leaves imageready and the exposing
\* flag false.
C2_TimeoutReportsFailure ==
  [][ (Responded /\ resp'.ep = "startexposure" /\ resp'.timedOut /\ ~resp'.notified) =>
        /\ resp'.env.ErrorNumber # 0
        /\ ~backend'.m_imageReady
        /\ ~backend'.m_isExposing ]_vars

\* Every blocking call returns: the frame at depth k is eventually gone.
EveryCallReturns ==
  \A k \in 1..MaxDepth : (Len(stack) >= k) ~> (Len(stack) < k)

\* singleShot returned in this step (early or after its wait): startexposure
\* answers with success exactly when singleShot was called and has returned.
SingleShotReturned ==
  Responded /\ resp'.ep = "startexposure" /\ resp'.env.ErrorNumber = 0

\* C3: every connectToTelescope and singleShot call returns, and isExposing()
\* is false whenever singleShot returns.
C3_ReturnsAndNotExposing ==
  /\ EveryCallReturns
  /\ [][SingleShotReturned => ~backend'.m_isExposing]_vars

\* C4: each response takes exactly one value of the transaction counter, and
\* the ServerTransactionID of a response exceeds that of the response before.
C4_ServerTransactionIdIncreases ==
  [][ /\ Responded =>
           /\ resp'.n = resp.n + 1
           /\ resp'.env.ServerTransactionID > resp.env.ServerTransactionID
           /\ resp'.env.ServerTransactionID = server.m_transactionCounter
           /\ server'.m_transactionCounter = server.m_transactionCounter + 1
      /\ ~Responded => server'.m_transactionCounter = server.m_transactionCounter ]_vars

\* C4 witness: a binary imagearray response written after an error response
\* and a JSON success response.
C4_Witness ==
  /\ resp.n = 3
  /\ resp.env.binary
  /\ resp.env.ServerTransactionID = 2

\* C5: a response is an error envelope (ErrorNumber # 0, a message, Value
\* null) or a success envelope (ErrorNumber 0, no message), never a mixture.
C5_EnvelopeWellFormed ==
  resp.n > 0 =>
    \/ /\ resp.env.ErrorNumber # 0
       /\ resp.env.ErrorMessage # ""
       /\ resp.env.Value = Null
    \/ /\ resp.env.ErrorNumber = 0
       /\ resp.env.ErrorMessage = ""

\* C5 witness: the not-supported error of pulseguide.
C5_Witness ==
  /\ resp.ep = "pulseguide"
  /\ resp.env.ErrorNumber = ErrNotSupported
  /\ resp.env.ErrorMessage # ""

\* Required body parameters of the PUT endpoints of C6.
Required(ep) ==
  IF ep \in {"slewtocoordinates", "synctocoordinates"} THEN {"RightAscension", "Declination"}
  ELSE IF ep = "startexposure" THEN {"Duration"}
  ELSE IF ep = "tracking_put" THEN {"Tracking"}
  ELSE {}

Missing(ep, body) ==
  body.kind \in {"empty", "junk"} \/ Required(ep) \ body.has # {}

OutOfRange(ep, body) ==
  /\ ~Missing(ep, body)
  /\ \/ /\ ep \in {"slewtocoordinates", "synctocoordinates"}
        /\ \/ body.val["RightAscension"] < 0
           \/ body.val["RightAscension"] >= 24
           \/ body.val["Declination"] < -90
           \/ body.val["Declination"] > 90
     \/ /\ ep = "startexposure"
        /\ body.val["Duration"] <= 0

\* C6: on a connected session a PUT lacking a required parameter gets the
\* missing-parameter number and one with an out-of-range value the
\* invalid-value number; the two differ from each other and from the
\* not-connected and generic numbers.
C6_MissingVersusInvalid ==
  [][ /\ ErrInvalidOperation # ErrInvalidValue
      /\ {ErrInvalidOperation, ErrInvalidValue} \cap {ErrNotConnected, ErrGeneric} = {}
      /\ (Responded /\ backend.m_isConnected /\ Required(resp'.ep) # {}) =>
           /\ Missing(resp'.ep, resp'.body) =>
                resp'.env.ErrorNumber = ErrInvalidOperation
           /\ OutOfRange(resp'.ep, resp'.body) =>
                resp'.env.ErrorNumber = ErrInvalidValue ]_vars

\* C6 witness: startexposure without Duration on a connected session.
C6_Witness ==
  /\ backend.m_isConnected
  /\ resp.ep = "startexposure"
  /\ resp.body.has = {"Gain"}
  /\ resp.env.ErrorNumber = ErrInvalidOperation

\* C7: a request answered with a validation error sends no native command
\* and changes nothing of the session.
C7_ValidationErrorTouchesNothing ==
  [][ (Responded /\ resp'.env.ErrorNumber \in {ErrInvalidOperation, ErrInvalidValue}) =>
        /\ backend'.m_nextSequenceId = backend.m_nextSequenceId
        /\ backend'.m_pendingCommands = backend.m_pendingCommands
        /\ backend'.sent = backend.sent
        /\ backend'.m_status = backend.m_status
        /\ backend'.m_isExposing = backend.m_isExposing
        /\ backend'.m_imageReady = backend.m_imageReady ]_vars

\* C7 witness: slewtocoordinates with an out-of-range declination, answered
\* on a connected session that has already sent commands.
C7_Witness ==
  /\ backend.m_isConnected
  /\ resp.ep = "slewtocoordinates"
  /\ resp.body.val["Declination"] = 91
  /\ resp.env.ErrorNumber = ErrInvalidValue
  /\ backend.sent # <<>>

ConnectionEndpoints ==
  {"altitude", "azimuth", "declination", "rightascension", "slewing", "atpark",
   "tracking", "tracking_put", "abortslew", "park", "unpark", "findhome",
   "slewtocoordinates", "synctocoordinates", "moveaxis"}

C9_NotConnectedCamera ==
  [][ (/\ Responded
       /\ Len(stack') = Len(stack)
       /\ ~backend.m_isConnected
       /\ \/ resp'.ep = "abortexposure"
          \/ resp'.ep = "startexposure" /\ validateStartExposure(backend, resp'.body).tag = "success")
      => /\ resp'.env.ErrorNumber = ErrNotConnected
         /\ backend'.m_isExposing = backend.m_isExposing
         /\ backend'.m_imageReady = backend.m_imageReady ]_vars

\* C10: once a connect call has failed by its 10 s timeout, and until another
\* connect call is made, the session is disconnected, the poll timer is
\* stopped and no command is sent.
C10_TimedOutConnectStaysDisconnected ==
  [][ (conn' = "timedout" /\ ConnectFrames(stack') = {}) =>
        /\ ~backend'.m_isConnected
        /\ ~backend'.m_status.isConnected
        /\ ~backend'.timerActive
        /\ conn = "timedout" => backend'.sent = backend.sent ]_vars


\* PUT connected was answered in this step without entering connectToTelescope,
\* and it asked for the connectivity the session already had.
SameStateRequested ==
  /\ Responded
  /\ resp'.ep = "connected_put"
  /\ Len(stack') = Len(stack)
  /\ validateConnected(backend, resp'.body).tag = "success"
  /\ validateConnected(backend, resp'.body).val = Bool(backend.m_isConnected)

\* C11: asking for the connectivity the session already has changes nothing:
\* connectToTelescope on a connected session returns true without opening the
\* transport, and PUT connected leaves the session as it is and answers
\* success with the current connectivity as Value.
C11_SameStateIsNoOp ==
  [][ /\ backend.m_isConnected => connectToTelescopeBegin(backend) = Done(backend, TRUE)
      /\ SameStateRequested =>
           /\ backend' = backend
           /\ stack' = stack
           /\ resp'.env.ErrorNumber = 0
           /\ resp'.env.Value = Bool(backend.m_isConnected) ]_vars

\* C11 witness: PUT connected Connected=1 answered at once on a session that
\* is connected and has no connect call in progress.
C11_Witness ==
  /\ backend.m_isConnected
  /\ stack = <<>>
  /\ conn = "ok"
  /\ resp.ep = "connected_put"
  /\ ~resp.notified
  /\ resp.body.val["Connected"] = 1
  /\ resp.env.Value = Bool(TRUE)

\* C12: from any reachable state, one disconnectFromTelescope call leaves the
\* transport closed or closing, the poll timer stopped and both connected
\* flags false, and a second call changes nothing more.
C12_DisconnectIdempotent ==
  LET d == disconnectFromTelescope(backend)
  IN /\ d.ws \in {"Closing", "Unconnected"}
     /\ ~d.timerActive
     /\ ~d.m_isConnected
     /\ ~d.m_status.isConnected
     /\ disconnectFromTelescope(d) = d

\* The transport's connected signal was delivered in this step.
ConnectedSignal == backend.ws = "Connecting" /\ backend'.ws = "Connected"

\* A connectToTelescope call that was released by the connected signal
\* returned in this step with the transport still up.
ReachableConnectReturned ==
  /\ stack # <<>>
  /\ Top.kind = "connect"
  /\ Top.notified
  /\ stack' = Pop
  /\ backend.ws = "Connected"

Directions == -1 .. 4
Speeds == {0, 1}

\* Every session operation other than connect, applied to b, fails without
\* changing b.
AllOperationsFailFast(b) ==
  /\ \A p \in CoordPairs :
       /\ gotoPosition(b, p[1], p[2]) = Done(b, FALSE)
       /\ syncPosition(b, p[1], p[2]) = Done(b, FALSE)
  /\ abortMotion(b) = Done(b, FALSE)
  /\ parkMount(b) = Done(b, FALSE)
  /\ unparkMount(b) = Done(b, FALSE)
  /\ initializeTelescope(b) = Done(b, FALSE)
  /\ \A d \in Directions, sp \in Speeds : moveDirection(b, d, sp) = Done(b, FALSE)
  /\ \A e \in BOOLEAN : setTracking(b, e) = Done(b, FALSE)
  /\ abortExposure(b) = Done(b, FALSE)
  /\ singleShotBegin(b) = Done(b, FALSE)

\* A camera request that calls abortExposure or singleShot was answered in
\* this step without entering or leaving a wait.
CameraOperationAnswered ==
  /\ Responded
  /\ Len(stack') = Len(stack)
  /\ \/ resp'.ep = "abortexposure"
     \/ /\ resp'.ep = "startexposure"
        /\ validateStartExposure(backend, resp'.body).tag = "success"

\* C14: while the session is not connected every operation other than connect
\* returns false (singleShot: no image), sends nothing, takes no sequence id
\* and leaves the status and the exposing and image-ready flags as they were;
\* a camera request that reaches abortExposure or singleShot in that state
\* leaves the whole session unchanged, and abortexposure reports the failure.
C14_NotConnectedFailsFast ==
  [][ ~backend.m_isConnected =>
        /\ AllOperationsFailFast(backend)
        /\ CameraOperationAnswered =>
             /\ backend' = backend
             /\ resp'.ep = "abortexposure" => resp'.env.ErrorNumber = ErrGeneric ]_vars

\* C14 witness: abortExposure was called on a session that lost its connection
\* during an exposure; the request failed and the exposing flag is still set.
C14_Witness ==
  /\ ~backend.m_isConnected
  /\ backend.m_isExposing
  /\ backend.sent # <<>>
  /\ resp.ep = "abortexposure"
  /\ resp.env.ErrorNumber = ErrGeneric

\* The transport of a connected session was lost in this step.
TransportLost == backend.ws = "Connected" /\ backend'.ws = "Unconnected"

\* C15: a transport-level disconnection releases every singleShot call that
\* is waiting for the image-ready signal: its event loop is quit by the
\* disconnection itself, not by the exposure timeout.
C15_DisconnectReleasesWait ==
  [][ TransportLost =>
        \A i \in DOMAIN stack :
          (stack[i].kind = "shot" /\ stack[i].phase = "wait") => stack'[i].quit ]_vars

\* C16: whenever the session is disconnected the map of pending commands is
\* empty, because every way of becoming disconnected clears it.
C16_DisconnectClearsPending ==
  ~backend.m_isConnected => backend.m_pendingCommands = {}

\* C17: a transport-level disconnect leaves the session disconnected with its
\* poll timer stopped; from then on, until a PUT connected is answered with
\* Value true, every telescope request that needs the connection is answered
\* with the not-connected error; and a connect call released by the connected
\* signal with the transport still up succeeds.  Requests answered while a
\* connect call is still waiting are left out.
C17_LostUntilConnectSucceeds ==
  [][ /\ TransportLost =>
           /\ ~backend'.m_isConnected
           /\ ~backend'.m_status.isConnected
           /\ ~backend'.timerActive
      /\ (/\ lost
          /\ ConnectFrames(stack) = {}
          /\ Responded
          /\ resp'.ep \in ConnectionEndpoints) =>
           resp'.env.ErrorNumber = ErrNotConnected
      /\ (lost /\ ReachableConnectReturned) =>
           /\ resp'.env.Value = Bool(TRUE)
           /\ ~lost' ]_vars

\* C18: the sequence ids of the transmitted commands increase strictly in
\* transmission order (so none is used twice), every one of them lies below
\* the next id to be given out, and that next id never goes down.
C18_SequenceIdsIncrease ==
  [][ /\ \A i, j \in DOMAIN backend'.sent :
           i < j => backend'.sent[i].id < backend'.sent[j].id
      /\ \A i \in DOMAIN backend'.sent :
           SeqStart <= backend'.sent[i].id /\ backend'.sent[i].id < backend'.m_nextSequenceId
      /\ backend'.m_nextSequenceId >= backend.m_nextSequenceId
      /\ SubSeq(backend'.sent, 1, Len(backend.sent)) = backend.sent ]_vars

\* C18 witness: a first connection, one round of the poll timer, a transport
\* loss and a second connection have transmitted five commands.
C18_Witness ==
  /\ Len(backend.sent) = 5
  /\ backend.sent[1].dest = "System"
  /\ backend.sent[2].dest = "Mount"
  /\ backend.sent[3].dest = "Environment"
  /\ backend.sent[4].dest = "Camera"
  /\ backend.sent[5].dest = "System"
  /\ backend.sent[5].id = SeqStart + 4
  /\ backend.m_isConnected

\* A message that carries no mount fields was processed in this step.
NoMountFieldsProcessed ==
  /\ backend.ws = "Connected"
  /\ backend'.data = backend.data
  /\ backend' = updateStatusFromProcessor(backend)
  /\ UNCHANGED <<server, stack, resp, conn, lost, downloader>>

\* C19: processing a message that carries no mount fields leaves isSlewing,
\* isTracking, isAligned, raPosition and decPosition of the status as they
\* were, also when gotoPosition or setTracking had set them just before.
C19_AbsentFieldsKept ==
  [][ NoMountFieldsProcessed =>
        /\ backend'.m_status.isSlewing = backend.m_status.isSlewing
        /\ backend'.m_status.isTracking = backend.m_status.isTracking
        /\ backend'.m_status.isAligned = backend.m_status.isAligned
        /\ backend'.m_status.raPosition = backend.m_status.raPosition
        /\ backend'.m_status.decPosition = backend.m_status.decPosition ]_vars

\* The operation the priority order Slewing > Tracking > Idle gives for the
\* mount data d.
DerivedOperation(d) ==
  IF ~d.isGotoOver THEN "Slewing" ELSE IF d.isTracking THEN "Tracking" ELSE "Idle"

\* An inbound message ran the status update in this step.
StatusUpdated ==
  /\ resp' = resp
  /\ backend.ws = "Connected"
  /\ OnMountMessage \/ OnEnvironmentMessage \/ OnImageNotification

\* C20: right after every status update currentOperation is Slewing when the
\* mount reports the goto as not over, else Tracking when tracking is on, else
\* Idle; it is Slewing whenever isSlewing is set, whatever isTracking says, and
\* a Parking, Unparking or Initializing left by an operation is gone.
C20_OperationByPriority ==
  [][ StatusUpdated =>
        /\ backend'.m_status.currentOperation = DerivedOperation(backend'.data)
        /\ backend'.m_status.isSlewing = ~backend'.data.isGotoOver
        /\ backend'.m_status.isTracking = backend'.data.isTracking
        /\ backend'.m_status.isSlewing => backend'.m_status.currentOperation = "Slewing"
        /\ backend'.m_status.currentOperation \in {"Slewing", "Tracking", "Idle"} ]_vars

\* C20 witness: after a connect and a park, a mount packet that reports
\* tracking on and the goto not over was processed; the operation is Slewing
\* although isTracking is set, and Parking is gone.
C20_Witness ==
  /\ Len(backend.sent) = 5
  /\ backend.sent[2].cmd = "Park"
  /\ backend.sent[3].dest = "Mount"
  /\ backend.m_status.isParked
  /\ backend.m_status.isTracking
  /\ ~backend.data.isGotoOver
  /\ backend.m_status.currentOperation = "Slewing"

\* b1 is b after exactly one more transmitted command, named cmd.
SentOneMore(b, b1, cmd) ==
  /\ Len(b1.sent) = Len(b.sent) + 1
  /\ SubSeq(b1.sent, 1, Len(b.sent)) = b.sent
  /\ b1.sent[Len(b1.sent)].cmd = cmd
  /\ b1.m_nextSequenceId = b.m_nextSequenceId + 1

\* gotoPosition on b returns true after one GotoRaDec with the status set to
\* slewing, so that the slewing read answers true.
GotoSetsSlewing(b) ==
  \A p \in CoordPairs :
    LET r == gotoPosition(b, p[1], p[2])
    IN /\ r.ok
       /\ SentOneMore(b, r.b, "GotoRaDec")
       /\ r.b.m_status.isSlewing
       /\ r.b.m_status.currentOperation = "Slewing"
       /\ handleTelescopeSlewing(r.b).val = Bool(TRUE)

\* C21 as stated: on a connected session gotoPosition and syncPosition each
\* send exactly one command (GotoRaDec, SyncToRaDec), set isSlewing and
\* currentOperation = Slewing and return true, so that a slewing read that
\* follows answers true.
C21_GotoAndSyncSetSlewing ==
  backend.m_isConnected =>
    /\ GotoSetsSlewing(backend)
    /\ \A p \in CoordPairs :
         LET r == syncPosition(backend, p[1], p[2])
         IN /\ r.ok
            /\ SentOneMore(backend, r.b, "SyncToRaDec")
            /\ r.b.m_status.isSlewing
            /\ r.b.m_status.currentOperation = "Slewing"
            /\ handleTelescopeSlewing(r.b).val = Bool(TRUE)

\* C21 amended: on a connected session gotoPosition sends exactly one
\* GotoRaDec, sets isSlewing and currentOperation = Slewing and returns true,
\* so that a slewing read that follows answers true; syncPosition sends
\* exactly one SyncToRaDec, returns true and leaves the status as it was.  A
\* slewtocoordinates or synctocoordinates request answered with success has
\* done exactly that to the session.
C21_GotoSetsSlewingSyncKeepsStatus ==
  /\ [](backend.m_isConnected =>
          /\ GotoSetsSlewing(backend)
          /\ \A p \in CoordPairs :
               LET r == syncPosition(backend, p[1], p[2])
               IN /\ r.ok
                  /\ SentOneMore(backend, r.b, "SyncToRaDec")
                  /\ r.b.m_status = backend.m_status)
  /\ [][ /\ (Responded /\ resp'.ep = "slewtocoordinates" /\ resp'.env.ErrorNumber = 0) =>
              /\ SentOneMore(backend, backend', "GotoRaDec")
              /\ backend'.m_status.isSlewing
              /\ backend'.m_status.currentOperation = "Slewing"
         /\ (Responded /\ resp'.ep = "synctocoordinates" /\ resp'.env.ErrorNumber = 0) =>
              /\ SentOneMore(backend, backend', "SyncToRaDec")
              /\ backend'.m_status = backend.m_status ]_vars

\* C21 witness: a sync and then a slew were accepted on a connected session;
\* the status is slewing after the slew.
C21_Witness ==
  /\ backend.m_isConnected
  /\ Len(backend.sent) = 3
  /\ backend.sent[2].cmd = "SyncToRaDec"
  /\ backend.sent[3].cmd = "GotoRaDec"
  /\ resp.ep = "slewtocoordinates"
  /\ resp.env.ErrorNumber = 0
  /\ backend.m_status.isSlewing

\* The response written last answers a startexposure whose wait was ended
\* by the image-ready signal before its timeout, and no exposure is in
\* progress: none was triggered since that response.
NotifiedExposureAnswered ==
  /\ resp.ep = "startexposure"
  /\ resp.notified
  /\ ~resp.timedOut
  /\ ShotFrames(stack) = {}

\* C22: a startexposure whose wait is ended by the image-ready notification
\* before the timeout is answered with success, and, the file download being
\* under way or done, an imageready read that follows the response answers
\* true.
C22_ReadyAfterNotifiedExposure ==
  [][ /\ (Responded /\ resp'.ep = "startexposure" /\ resp'.notified /\ ~resp'.timedOut) =>
           resp'.env.ErrorNumber = 0
      /\ (/\ NotifiedExposureAnswered
          /\ backend.downloads > 0 \/ backend.m_imageReady
          /\ backend.m_isConnected
          /\ Responded
          /\ resp'.ep = "imageready") =>
           resp'.env.Value = Bool(TRUE) ]_vars

\* The two bodies handleCameraImageArray can build in the current state: the
\* JSON Value and the binary payload.
JsonValue == envelope(server, handleCameraImageArray(backend), NoItem, FALSE).env.Value
BinaryValue == envelope(server, handleCameraImageArray(backend), NoItem, TRUE).env.Value

\* C23: for a stored image that imagearray can return, the binary payload
\* carries the pixel values of the JSON array, in the same order, row after
\* row; its header declares rank 2, data offset 44 and the image's width and
\* height; and every imagearray response is one of these two bodies.
C23_EncodingsAgree ==
  /\ [](handleCameraImageArray(backend).tag = "success" =>
          LET image == Image(backend.m_lastImage)
          IN /\ BinaryValue.data = JsonValue.v
             /\ Len(JsonValue.v) = image.width * image.height
             /\ \A x \in 0 .. image.width - 1, y \in 0 .. image.height - 1 :
                  /\ JsonValue.v[y * image.width + x + 1] = grayValue(image, x, y)
                  /\ BinaryValue.data[y * image.width + x + 1] = grayValue(image, x, y)
             /\ BinaryValue.rank = 2
             /\ BinaryValue.dataStart = 44
             /\ BinaryValue.dimension1 = image.width
             /\ BinaryValue.dimension2 = image.height)
  /\ [][ (Responded /\ resp'.ep = "imagearray" /\ resp'.env.ErrorNumber = 0) =>
           resp'.env.Value = IF resp'.env.binary THEN BinaryValue ELSE JsonValue ]_vars

\* C23 witness: the binary response for the stored image of width 3 and
\* height 1, written after another imagearray response.
C23_Witness ==
  /\ resp.ep = "imagearray"
  /\ resp.n = 2
  /\ resp.env.binary
  /\ resp.env.Value.dimension1 = 3
  /\ resp.env.Value.dimension2 = 1
  /\ resp.env.Value.data = <<257, 514, 771>>

\* Some singleShot call is inside one of its event loops, which has not been
\* quit.
ShotWaiting == \E i \in ShotFrames(stack) : ~stack[i].quit

\* Some connectToTelescope call is inside its event loop, which has not been
\* quit.
ConnectWaiting == \E i \in ConnectFrames(stack) : ~stack[i].quit

\* k more sequence ids fit under the bound n on the commands of a run.
Room(k, n) == backend.m_nextSequenceId + k + Reserved(stack) <= SeqStart + n

\* C24: while a singleShot call is waiting, a mount status message can be
\* processed and a tick of the running poll timer can be served; processing
\* the message brings the status up to date and the tick sends the three
\* queries, in both cases without ending the wait.  While a connectToTelescope
\* call is waiting, the connected signal of the opening transport can be
\* processed.
C24_WaitKeepsProcessing ==
  /\ []((ShotWaiting /\ backend.ws = "Connected" /\ Room(3, MaxPollCmds)) =>
          /\ ENABLED OnMountMessageWithin(MaxPollCmds)
          /\ backend.timerActive => ENABLED StatusTimerTickWithin(MaxPollCmds))
  /\ []((ConnectWaiting /\ backend.ws = "Connecting" /\ Room(1, MaxCmds)) => ENABLED WsConnected)
  /\ [][ /\ (ShotWaiting /\ OnMountMessageWithin(MaxPollCmds)) =>
              /\ stack' = stack
              /\ backend'.data \in MountMsgs
              /\ backend'.m_status.isTracking = backend'.data.isTracking
              /\ backend'.m_status.isSlewing = ~backend'.data.isGotoOver
              /\ backend'.m_status.raPosition = radiansToHours(backend'.data.enc0)
              /\ backend'.m_status.decPosition = radiansToDegrees(backend'.data.enc1)
         /\ (ShotWaiting /\ StatusTimerTickWithin(MaxPollCmds)) =>
              /\ stack' = stack
              /\ Len(backend'.sent) = Len(backend.sent) + 3 ]_vars

\* C24 witness: a singleShot call has sent RunImaging and is waiting for the
\* image; since then a poll tick has sent its three queries and a mount packet
\* has arrived, whose position is in the status.
C24_Witness ==
  /\ stack # <<>>
  /\ Top.kind = "shot" /\ Top.phase = "wait" /\ ~Top.quit
  /\ Len(backend.sent) = 9
  /\ backend.sent[3].cmd = "RunImaging"
  /\ backend.sent[4].dest = "Mount"
  /\ backend.sent[9].cmd = "GetCaptureParameters"
  /\ backend.data.enc0 = 90
  /\ backend.m_status.raPosition = radiansToHours(90)
  /\ backend.m_status.raPosition # InitStatus.raPosition

\* The capability and fixed-property routes.
FixedEndpoints ==
  {"canpark", "canslew", "cameraxsize", "cameraysize", "pixelsizex", "pixelsizey",
   "name", "description", "driverinfo", "driverversion", "interfaceversion",
   "management/apiversions", "management/v1/description",
   "management/v1/configureddevices"}

\* What the route's handler answers in the session as constructed.
InitialAnswer(ep) ==
  CASE ep = "canpark" -> handleTelescopeCanPark(InitBackend)
    [] ep = "canslew" -> handleTelescopeCanSlew(InitBackend)
    [] ep = "cameraxsize" -> handleCameraCameraXSize(InitBackend)
    [] ep = "cameraysize" -> handleCameraCameraYSize(InitBackend)
    [] ep = "pixelsizex" -> handleCameraPixelSizeX(InitBackend)
    [] ep = "pixelsizey" -> handleCameraPixelSizeY(InitBackend)
    [] ep = "name" -> handleDeviceName(InitBackend)
    [] ep = "description" -> handleDeviceDescription(InitBackend)
    [] ep = "driverinfo" -> handleDeviceDriverInfo(InitBackend)
    [] ep = "driverversion" -> handleDeviceDriverVersion(InitBackend)
    [] ep = "interfaceversion" -> handleDeviceInterfaceVersion(InitBackend)
    [] ep = "management/apiversions" -> handleManagementVersions(InitBackend)
    [] ep = "management/v1/description" -> handleManagementDescription(InitBackend)
    [] ep = "management/v1/configureddevices" -> handleManagementConfiguredDevices(InitBackend)

\* Some fixed-property route is answered in this step.
FixedAnswered == resp' # resp /\ resp'.ep \in FixedEndpoints

\* C25: a request to a capability or fixed-property route is answered with a
\* success envelope whose value is the one the route gives in the session as
\* constructed, and changes nothing in the backend (no command is sent);
\* and such a request can be answered in every state.
C25_FixedPropertiesConstant ==
  /\ [](RespRoom =>
          /\ ENABLED HandleTelescopeCanPark
          /\ ENABLED HandleTelescopeCanSlew
          /\ ENABLED HandleManagementVersions
          /\ ENABLED HandleManagementDescription
          /\ ENABLED HandleManagementConfiguredDevices
          /\ ENABLED HandleDeviceDescription
          /\ ENABLED HandleDeviceDriverInfo
          /\ ENABLED HandleDeviceDriverVersion
          /\ ENABLED HandleDeviceInterfaceVersion
          /\ ENABLED HandleDeviceName
          /\ ENABLED HandleCameraCameraXSize
          /\ ENABLED HandleCameraCameraYSize
          /\ ENABLED HandleCameraPixelSizeX
          /\ ENABLED HandleCameraPixelSizeY)
  /\ [][FixedAnswered =>
          /\ resp'.env.ErrorNumber = 0
          /\ resp'.env.ErrorMessage = ""
          /\ InitialAnswer(resp'.ep).tag = "success"
          /\ resp'.env.Value = InitialAnswer(resp'.ep).val
          /\ backend' = backend]_vars

\* C25 witness: a fixed-property route has been answered while a singleShot
\* call of a connected session was waiting for its image.
C25_Witness ==
  /\ resp.ep = "canslew"
  /\ resp.env.Value = Bool(TRUE)
  /\ resp.n = 2
  /\ backend.m_isExposing
  /\ backend.m_isConnected
  /\ stack # <<>>
  /\ Top.kind = "shot" /\ Top.phase = "wait"

\* The server enters the running state in this step.
Started == server'.m_running /\ ~server.m_running

\* C26: the discovery timer is active exactly when the server is running; the
\* step that brings the server into the running state sends one datagram; and
\* every datagram sent, then or on a timer tick, carries the port of the start
\* call that brought the server into the running state, while it is running.
C26_DiscoveryWhileRunning ==
  /\ [](server.m_discoveryTimer <=> server.m_running)
  /\ [][ /\ Started => Len(server'.datagrams) = Len(server.datagrams) + 1
         /\ server'.datagrams # server.datagrams =>
              /\ server'.m_running
              /\ Len(server'.datagrams) = Len(server.datagrams) + 1
              /\ SubSeq(server'.datagrams, 1, Len(server.datagrams)) = server.datagrams
              /\ server'.datagrams[Len(server'.datagrams)] = server'.startedOn ]_vars

\* C26 witness: the server ran on one port, broadcast on start and on a timer
\* tick, was stopped, and a later start with another port failed.
C26_Witness ==
  /\ ~server.m_running
  /\ ~server.m_discoveryTimer
  /\ server.datagrams = <<8080, 8080>>
  /\ server.startedOn = 8080
  /\ server.m_port = DefaultPort

\* The decimal digits of a number, as QJsonDocument writes it.
Digits == <<"0", "1", "2", "3", "4", "5", "6", "7", "8", "9">>

RECURSIVE toText(_)
toText(n) ==
  IF n < 10 THEN <<Digits[n + 1]>>
  ELSE Append(toText(n \div 10), Digits[(n % 10) + 1])

\* The ClientTransactionID a request gives, as text: the text of its query
\* item, 0 without the item.
Given(ctid) == IF ctid.has THEN ctid.text ELSE <<"0">>

\* C27: a success envelope carries the ClientTransactionID the request gave
\* in its query string (0 without the item), an error envelope carries 0.
C27_ClientTransactionIdEchoed ==
  [][Responded =>
       IF resp'.env.ErrorNumber = 0
         THEN toText(resp'.env.ClientTransactionID) = Given(resp'.ctid)
         ELSE resp'.env.ClientTransactionID = 0]_vars

\* SequenceIDs of the entries of the pending map, and of the commands
\* transmitted.
PendingIds(b) == {p.id : p \in b.m_pendingCommands}

SentIds(b) == {b.sent[i].id : i \in DOMAIN b.sent}

\* C28: processing the Response to a command removes the command's entry from
\* the pending map, and once every transmitted command has been answered the
\* map of a connected session is empty.
C28_PendingRemovedWhenAnswered ==
  /\ []((backend.m_isConnected /\ SentIds(backend) \subseteq backend.answered) =>
          backend.m_pendingCommands = {})
  /\ [][\A id \in backend'.answered \ backend.answered :
          id \notin PendingIds(backend')]_vars

\* A singleShot call has passed its connection check in this step.
ShotEntered ==
  /\ Len(stack') = Len(stack) + 1
  /\ stack'[Len(stack')].kind = "shot"

\* A singleShot call leaves its settle loop in this step.
ShotTriggered ==
  /\ Len(stack') = Len(stack)
  /\ stack # <<>>
  /\ Top.kind = "shot" /\ Top.phase = "settle"
  /\ stack'[Len(stack)].phase = "wait"

RunImagingSent(b) == {i \in DOMAIN b.sent : b.sent[i].cmd = "RunImaging"}

\* C29: a singleShot call on a connected session sends SetCaptureParameters
\* when it is entered; it sends RunImaging, carrying the identifier generated
\* for this call, only when its settle delay has elapsed, and resets the
\* image-ready flag then; RunImaging is sent at no other step; and the wait
\* with its timeout begins at that step, so that no call in its settle delay
\* has timed out.
C29_SettleThenRunImaging ==
  /\ [](\A i \in ShotFrames(stack) : stack[i].phase = "settle" => ~stack[i].timedOut)
  /\ [][ /\ ShotEntered =>
              /\ Len(backend'.sent) = Len(backend.sent) + 1
              /\ backend'.sent[Len(backend'.sent)].cmd = "SetCaptureParameters"
         /\ (ShotTriggered /\ backend.ws = "Connected") =>
              /\ Top.quit
              /\ Len(backend'.sent) = Len(backend.sent) + 1
              /\ backend'.sent[Len(backend'.sent)].cmd = "RunImaging"
              /\ backend'.sent[Len(backend'.sent)].uuid = Top.uuid
              /\ ~backend'.m_imageReady
              /\ ~stack'[Len(stack)].quit
         /\ ~ShotTriggered => RunImagingSent(backend') = RunImagingSent(backend) ]_vars

\* A moveaxis request with Axis and Rate is answered in this step, on a
\* session that was connected when it arrived.
MoveAxisAnswered ==
  /\ Responded
  /\ resp'.ep = "moveaxis"
  /\ backend.m_isConnected
  /\ {"Axis", "Rate"} \subseteq resp'.body.has

\* min(100, |Rate * 100|) truncated to an integer, for the Rate of a body.
ExpectedSpeed(body) ==
  LET rate == value(body, "Rate")
      exponent == value(body, "RateExponent")
  IN IF castOverflows(rate, exponent) THEN 100
     ELSE IF exponent < 0 THEN Min(100, Abs(rate) \div Pow10(-exponent))
     ELSE Min(100, Abs(rate) * Pow10(exponent))

\* C30: a moveaxis request on a connected session with Axis 0 or 1 sends
\* exactly one MoveAxis command, with axis Ra for 0 and Dec for 1, direction
\* Positive for Rate >= 0 and Negative otherwise, and Speed
\* min(100, |Rate * 100|) truncated, which lies in 0..100; with any other Axis
\* it is answered with the invalid-value error and sends nothing.
C30_MoveAxisCommand ==
  [][MoveAxisAnswered =>
       IF value(resp'.body, "Axis") \in {0, 1}
         THEN /\ Len(backend'.sent) = Len(backend.sent) + 1
              /\ LET c == backend'.sent[Len(backend'.sent)]
                 IN /\ c.cmd = "MoveAxis"
                    /\ c.params.Axis = IF value(resp'.body, "Axis") = 0 THEN "Ra" ELSE "Dec"
                    /\ c.params.Direction = IF value(resp'.body, "Rate") >= 0 THEN "Positive"
                                            ELSE "Negative"
                    /\ c.params.Speed = ExpectedSpeed(resp'.body)
                    /\ c.params.Speed \in 0 .. 100
         ELSE /\ resp'.env.ErrorNumber = ErrInvalidValue
              /\ backend'.sent = backend.sent]_vars

\* ------------------------------------------------------------------ C31
\* C31: processing a message that is no JSON, no object or of no known shape
\* changes nothing but the count of dropped messages: TelescopeStatus, the
\* connection state, the exposing and image-ready flags, the stored image,
\* the downloads in flight, the commands sent and the waiting calls stay as
\* they were.
C31_UnmatchedMessageDropped ==
  [][backend'.dropped # backend.dropped =>
       /\ backend' = [backend EXCEPT !.dropped = @ + 1]
       /\ UNCHANGED <<server, stack, resp, conn, lost, downloader>>]_vars

\* A message was dropped while a slew set by slewtocoordinates is shown that
\* the processor's data does not know of, and while an exposure waits.
C31_Witness ==
  /\ backend.dropped > 0
  /\ backend.m_isConnected
  /\ backend.m_status.isSlewing /\ backend.data.isGotoOver
  /\ backend.m_isExposing
  /\ stack # <<>> /\ Top.kind = "shot" /\ Top.phase = "wait" /\ ~Top.quit

\* ------------------------------------------------------------------ C32
\* C32: status queries are sent by the poll timer only: a step that processes
\* the telescope's Response to a command sends no command.
C32_ResponseSendsNoQuery ==
  [][backend'.answered # backend.answered => backend'.sent = backend.sent]_vars

\* ------------------------------------------------------------------ C33
\* C33: a notification that arrived while no singleShot call was waiting, and
\* the download it started, neither sets the image-ready flag during the wait
\* of a later call nor completes that wait: when every notification is such
\* a one, a waiting call is never marked as notified and image-ready stays
\* false while it waits.
C33_StrayNotificationIgnored ==
  \A i \in DOMAIN stack :
    stack[i].kind = "shot" /\ stack[i].phase = "wait" =>
      ~stack[i].notified /\ ~backend.m_imageReady

\* ------------------------------------------------------------------ C34
\* C34: isExposing() is true exactly while some singleShot call is past its
\* RunImaging command and has not returned.
C34_ExposingWhileInFlight ==
  backend.m_isExposing <=>
    \E i \in DOMAIN stack : stack[i].kind = "shot" /\ stack[i].phase = "wait"

\* ------------------------------------------------------------------ C35
\* C35: between handlers the three connection indicators agree:
\* m_isConnected equals status().isConnected, and the poll timer is active
\* exactly when m_isConnected is true.
C35_ConnectionIndicatorsAgree ==
  /\ backend.m_isConnected = backend.m_status.isConnected
  /\ backend.timerActive = backend.m_isConnected

\* A connected session was disconnected by PUT connected while the transport
\* is still closing.
C35_Witness ==
  /\ backend.ws = "Closing"
  /\ ~backend.m_isConnected /\ ~backend.timerActive
  /\ backend.sent # <<>>
  /\ resp.ep = "connected_put"
  /\ resp.env.ErrorNumber = 0 /\ resp.env.Value = Bool(FALSE)

\* ------------------------------------------------------------------ C36
\* C36: the bridge can be restarted: the step in which a running server
\* stops releases its listening socket, so that a later start can listen on
\* the port again.
C36_StopReleasesSocket ==
  [][server.m_running /\ ~server'.m_running => ~server'.listening]_vars

\* ------------------------------------------------------------------ C37
\* C37: an imagearray request is answered with pixel data exactly when the
\* session is connected, image-ready is true and an image is stored;
\* otherwise with an error envelope, 1031 when the session is not connected
\* (whatever the image state) and the generic error when it is connected
\* without a ready image; and the request leaves the backend, image-ready
\* flag and stored image included, as it was.
C37_ImageArrayGuarded ==
  [][(Responded /\ resp'.ep = "imagearray") =>
       LET have == backend.m_imageReady /\ backend.m_lastImage # 0
           env == resp'.env
       IN /\ env.ErrorNumber = 0 <=> (backend.m_isConnected /\ have)
          /\ env.ErrorNumber = 0 =>
                env.Value = IF env.binary THEN BinaryValue ELSE JsonValue
          /\ env.ErrorNumber # 0 => env.Value = Null
          /\ ~backend.m_isConnected => env.ErrorNumber = ErrNotConnected
          /\ (backend.m_isConnected /\ ~have) => env.ErrorNumber = ErrGeneric
          /\ backend' = backend]_vars

\* A session that is not connected and holds no ready image was asked for
\* the image array and answered not-connected; its stored image is kept.
C37_Witness ==
  /\ resp.ep = "imagearray"
  /\ resp.env.ErrorNumber = ErrNotConnected
  /\ ~backend.m_isConnected
  /\ ~backend.m_imageReady
  /\ backend.m_lastImage = 4

\* ------------------------------------------------------------------ C38
\* C38: in a connected session TelescopeStatus never shows the mount parked
\* and slewing at once.
C38_NeverParkedAndSlewing ==
  backend.m_isConnected =>
    ~(backend.m_status.isParked /\ backend.m_status.isSlewing)

\* ------------------------------------------------------------------ C39
\* C39: allDownloadsComplete is emitted once per run of the AutoDownloader:
\* never more than once since the last startDownload.
C39_CompleteOncePerRun == downloader.completions <= 1

====
